---- MODULE Spec2Model ----
(***************************************************************************)
(* ForgeKeeper import/merge pipeline: the configuration merger             *)
(* (scripts/config_merger.py) and the feature mapper                       *)
(* (scripts/devcontainer_mapper.py).                                       *)
(*                                                                         *)
(* Python values are modelled as follows.                                  *)
(*   str   a TLA+ string; characters are read with SubSeq(s, i, i)         *)
(*   list  a sequence                                                      *)
(*   set   a set                                                           *)
(*   dict  env-var dicts, whose iteration order the code depends on, are   *)
(*         sequences of <<key, value>> pairs with distinct keys, in        *)
(*         insertion order; top-level configuration dicts, which are only  *)
(*         looked up by key, are functions from key to value               *)
(*   None  the record None; a value that may be None or a str is None or   *)
(*         Str(s)                                                          *)
(***************************************************************************)
EXTENDS Integers, Sequences, FiniteSets, TLC

VARIABLES
    user_config,      \* merge_config's first argument, as the caller holds it
    imported_config,  \* merge_config's second argument, as the caller holds it
    merged,           \* what the last merge_config call returned (None before)
    merged_before,    \* what the call before the last returned (None before)
    calls,            \* number of merge_config calls made on these arguments
    config,           \* the DevcontainerConfig handed to map_features
    mapping,          \* the MappingResult map_features returned (None before)
    shared,           \* the fields of config whose object mapping refers to
    image,            \* the argument of detect_language_from_image
    detected,         \* what detect_language_from_image returned (None before)
    jsonschema,       \* what the parser module's import of jsonschema found
    document,         \* the descriptor the caller serialised into content
                      \* (None when the text was not made from one)
    file_path,        \* the path given to parse_file, as it is on disk (None
                      \* for a parse_content call)
    content,          \* the text given to parse_content (None until read)
    stage,            \* the step of the call that runs next
    decoded,          \* what json.loads returned or raised (None before)
    schema_errors,    \* what validate_schema returned (None before)
    outcome,          \* how the call ended (None before)
    sensitive_value,  \* the argument of mask_value (None when not called)
    masked_value,     \* what mask_value returned (None before)
    port_list,        \* the argument of validate_ports (None when not called)
    port_validation,  \* what validate_ports returned (None before)
    sessions,         \* per wizard session: the call it runs on the shared
                      \* parser, mapper and merger, and that call's locals
    last_errors,      \* the list the last validate_schema call built, which
                      \* stays in memory after the call
    setup_complete,   \* whether the portal's SETUP_COMPLETE file exists
    env_file,         \* the text of the portal's ENV_FILE (None: no file)
    runtime_script,   \* whether the portal's RUNTIME_SCRIPT file exists
    handlers,         \* per handler thread of the portal: the request it
                      \* serves, how far it is, and what it has answered
    build_process,    \* SetupHandler.build_process: the build whose process
                      \* it refers to (None before the first)
    build_log,        \* the list SetupHandler.build_log refers to; a line
                      \* is <<build that wrote it, text>>
    builds,           \* per build started: where its stream_build thread
                      \* is, its process, the lines in the process's pipe
    build_response    \* the wizard's last response (None before the first)

vars == <<user_config, imported_config, merged, merged_before, calls,
          config, mapping, shared, image, detected,
          jsonschema, document, file_path, content, stage, decoded,
          schema_errors, outcome,
          sensitive_value, masked_value, port_list, port_validation,
          sessions, last_errors,
          setup_complete, env_file, runtime_script, handlers,
          build_process, build_log, builds, build_response>>

merger_vars == <<user_config, imported_config, merged, merged_before, calls>>
mapper_vars == <<config, mapping, shared>>
detector_vars == <<image, detected>>
parser_vars == <<jsonschema, document, file_path, content, stage, decoded,
                 schema_errors, outcome>>
security_vars == <<sensitive_value, masked_value, port_list, port_validation>>
session_vars == <<sessions, last_errors>>
portal_vars == <<setup_complete, env_file, runtime_script, handlers>>
build_vars == <<build_process, build_log, builds, build_response>>

None == [is_none |-> TRUE]

\* An Optional[str] is None or Str(s); the str is read as v.str.
Str(s) == [str |-> s]
is_None(v) == "is_none" \in DOMAIN v

(***************************************************************************)
(* Python str                                                              *)
(***************************************************************************)

\* The printable ASCII characters in code point order: 32 (space) to 95, and
\* 97 to 126.
AsciiTo95 == " !\"#$%&'()*+,-./0123456789:;<=>?@ABCDEFGHIJKLMNOPQRSTUVWXYZ[\\]^_"
AsciiFrom97 == "abcdefghijklmnopqrstuvwxyz{|}~"

char_at(s, i) == SubSeq(s, i, i)

chars_of(s) == {char_at(s, i) : i \in 1..Len(s)}

\* The code point of each character, tabulated.
CodePoint ==
    [c \in chars_of(AsciiTo95) |->
        31 + (CHOOSE i \in 1..Len(AsciiTo95) : char_at(AsciiTo95, i) = c)]
    @@
    [c \in chars_of(AsciiFrom97) |->
        96 + (CHOOSE i \in 1..Len(AsciiFrom97) : char_at(AsciiFrom97, i) = c)]

ord(c) == CodePoint[c]

\* a < b on str: code points compared position by position; a proper prefix
\* is smaller.
str_lt(a, b) ==
    \E i \in 1..Len(b) :
        /\ i - 1 <= Len(a)
        /\ SubSeq(a, 1, i - 1) = SubSeq(b, 1, i - 1)
        /\ \/ i > Len(a)
           \/ ord(char_at(a, i)) < ord(char_at(b, i))

startswith(s, prefix) ==
    /\ Len(prefix) <= Len(s)
    /\ SubSeq(s, 1, Len(prefix)) = prefix

\* sub in s
contains(s, sub) ==
    \E i \in 1..(Len(s) - Len(sub) + 1) : SubSeq(s, i, i + Len(sub) - 1) = sub

Whitespace == {" ", "\t", "\n", "\r", "\f"}

UpperCase == "ABCDEFGHIJKLMNOPQRSTUVWXYZ"
LowerCase == "abcdefghijklmnopqrstuvwxyz"

lower_char(c) ==
    IF c \in chars_of(UpperCase)
    THEN char_at(LowerCase, CHOOSE i \in 1..Len(UpperCase) : char_at(UpperCase, i) = c)
    ELSE c

\* s.lower()
RECURSIVE lower(_)
lower(s) == IF s = "" THEN "" ELSE lower_char(Head(s)) \o lower(Tail(s))

\* s.strip()
strip(s) ==
    LET kept == {i \in 1..Len(s) : char_at(s, i) \notin Whitespace}
    IN  IF kept = {} THEN ""
        ELSE SubSeq(s, CHOOSE i \in kept : \A j \in kept : i <= j,
                       CHOOSE i \in kept : \A j \in kept : j <= i)

\* s.split(sep) for a one-character sep
RECURSIVE split(_, _)
split(s, sep) ==
    LET at == {i \in 1..Len(s) : char_at(s, i) = sep}
    IN  IF at = {} THEN <<s>>
        ELSE LET first == CHOOSE i \in at : \A j \in at : i <= j
             IN  <<SubSeq(s, 1, first - 1)>>
                     \o split(SubSeq(s, first + 1, Len(s)), sep)

\* s.replace(old, new) for one-character old and new
RECURSIVE replace(_, _, _)
replace(s, old, new) ==
    IF s = "" THEN ""
    ELSE (IF Head(s) = old THEN new ELSE Head(s)) \o replace(Tail(s), old, new)

\* sorted(S) for a set of str
RECURSIVE sorted(_)
sorted(S) ==
    IF S = {} THEN << >>
    ELSE LET least == CHOOSE x \in S : \A y \in S : ~ str_lt(y, x)
         IN  <<least>> \o sorted(S \ {least})

\* set(l) for a list
set_of(l) == {l[i] : i \in DOMAIN l}

(***************************************************************************)
(* Python dict (insertion ordered)                                         *)
(***************************************************************************)

dict_keys(d) == {d[i][1] : i \in DOMAIN d}

dict_get(d, key) == d[CHOOSE i \in DOMAIN d : d[i][1] = key][2]

\* d[key] = value: an existing key keeps its place, a new key goes last
dict_set(d, key, value) ==
    IF key \in dict_keys(d)
    THEN [i \in DOMAIN d |-> IF d[i][1] = key THEN <<key, value>> ELSE d[i]]
    ELSE Append(d, <<key, value>>)

\* cfg.get(key, default) on a top-level configuration
get(cfg, key, default) ==
    IF key \in DOMAIN cfg THEN cfg[key] ELSE default

\* cfg[key] = value on a top-level configuration
put(cfg, key, value) == (key :> value) @@ cfg

(***************************************************************************)
(* config_merger.merge_config                                              *)
(***************************************************************************)

\* The f-string appended to warnings for a conflicting key.
conflict_warning(key, value, imported_value) ==
    "Environment variable '" \o key \o "' conflict: keeping user value '"
        \o value \o "' over imported value '" \o imported_value \o "'"

\* Faulty variant of copy_imported_env: the imported entries are not copied.
copy_imported_env_skipped(merged_env, imported_env) == merged_env

\* for key, value in imported_env.items(): merged_env[key] = value
RECURSIVE copy_imported_env(_, _)
copy_imported_env(merged_env, imported_env) ==
    IF imported_env = << >> THEN merged_env
    ELSE copy_imported_env(
             dict_set(merged_env, Head(imported_env)[1], Head(imported_env)[2]),
             Tail(imported_env))

\* Faulty variant of is_conflict: the values are not compared.
is_conflict_any_shared_key(key, value, imported_env) ==
    key \in dict_keys(imported_env)

\* The conflict test of the user loop.
is_conflict(key, value, imported_env) ==
    key \in dict_keys(imported_env) /\ dict_get(imported_env, key) # value

\* Faulty variant of layered_value: on a collision the imported value is kept.
layered_value_imported_wins(key, value, imported_env) ==
    IF key \in dict_keys(imported_env) THEN dict_get(imported_env, key)
    ELSE value

\* The value the user loop stores under key.
layered_value(key, value, imported_env) == value

\* One iteration of the user loop, on acc = [merged_env, warnings].
layer_user_var(acc, key, value, imported_env) ==
    [merged_env |-> dict_set(acc.merged_env, key,
                             layered_value(key, value, imported_env)),
     warnings   |-> IF is_conflict(key, value, imported_env)
                    THEN Append(acc.warnings,
                                conflict_warning(key, value,
                                                 dict_get(imported_env, key)))
                    ELSE acc.warnings]

\* for key, value in user_env.items(): ...
RECURSIVE layer_user_env(_, _, _)
layer_user_env(acc, user_env, imported_env) ==
    IF user_env = << >> THEN acc
    ELSE layer_user_env(
             layer_user_var(acc, Head(user_env)[1], Head(user_env)[2],
                            imported_env),
             Tail(user_env), imported_env)

\* The environment-variable section: [merged_env, warnings].
merge_env_vars(user_cfg, imported_cfg) ==
    LET user_env     == get(user_cfg, "env_vars", << >>)
        imported_env == get(imported_cfg, "env_vars", << >>)
    IN  layer_user_env(
            [merged_env |-> copy_imported_env(<< >>, imported_env),
             warnings   |-> << >>],
            user_env, imported_env)

\* Faulty variant of merge_languages: the union is returned unsorted, user's first.
merge_languages_unsorted(user_cfg, imported_cfg) ==
    LET langs == get(user_cfg, "languages", << >>)
                     \o get(imported_cfg, "languages", << >>)
    IN  [i \in 1..Cardinality({j \in DOMAIN langs :
                                  \A h \in 1..(j - 1) : langs[h] # langs[j]})
            |-> langs[CHOOSE j \in DOMAIN langs :
                        /\ \A h \in 1..(j - 1) : langs[h] # langs[j]
                        /\ Cardinality({g \in 1..j :
                               \A h \in 1..(g - 1) : langs[h] # langs[g]}) = i]]

\* The languages section.
merge_languages(user_cfg, imported_cfg) ==
    LET user_langs     == set_of(get(user_cfg, "languages", << >>))
        imported_langs == set_of(get(imported_cfg, "languages", << >>))
    IN  sorted(user_langs \cup imported_langs)

\* The port loop on acc = [seen_ports, merged_ports].
RECURSIVE append_unseen_ports(_, _)
append_unseen_ports(acc, ports) ==
    IF ports = << >> THEN acc
    ELSE append_unseen_ports(
             IF Head(ports) \notin acc.seen_ports
             THEN [seen_ports   |-> acc.seen_ports \cup {Head(ports)},
                   merged_ports |-> Append(acc.merged_ports, Head(ports))]
             ELSE acc,
             Tail(ports))

\* Faulty variant of merge_ports: the imported ports are visited first.
merge_ports_imported_first(user_cfg, imported_cfg) ==
    LET user_ports     == get(user_cfg, "ports", << >>)
        imported_ports == get(imported_cfg, "ports", << >>)
    IN  append_unseen_ports([seen_ports |-> {}, merged_ports |-> << >>],
                            imported_ports \o user_ports).merged_ports

\* The ports section.
merge_ports(user_cfg, imported_cfg) ==
    LET user_ports     == get(user_cfg, "ports", << >>)
        imported_ports == get(imported_cfg, "ports", << >>)
    IN  append_unseen_ports([seen_ports |-> {}, merged_ports |-> << >>],
                            user_ports \o imported_ports).merged_ports

handled_keys == {"env_vars", "languages", "ports"}

\* for key, value in user_config.items(): if key not in handled_keys: ...
carry_user_keys(result, user_cfg) ==
    [key \in (DOMAIN user_cfg \ handled_keys) |-> user_cfg[key]] @@ result

\* Faulty variant of carry_imported_keys: "key not in merged" is not tested.
carry_imported_keys_overwriting(result, imported_cfg) ==
    [key \in (DOMAIN imported_cfg \ handled_keys) |-> imported_cfg[key]]
    @@ result

\* for key, value in imported_config.items():
\*     if key not in handled_keys and key not in merged: ...
carry_imported_keys(result, imported_cfg) ==
    result @@
    [key \in (DOMAIN imported_cfg \ (handled_keys \cup DOMAIN result))
        |-> imported_cfg[key]]

\* The dict merge_config returns.
merge_result(user_cfg, imported_cfg) ==
    LET env      == merge_env_vars(user_cfg, imported_cfg)
        sections == [env_vars  |-> env.merged_env,
                     languages |-> merge_languages(user_cfg, imported_cfg),
                     ports     |-> merge_ports(user_cfg, imported_cfg)]
        carried  == carry_imported_keys(carry_user_keys(sections, user_cfg),
                                        imported_cfg)
    IN  put(carried, "warnings", env.warnings)

\* Faulty variant of args_after_merge: merged_env is the imported dict itself, not a
\* new dict, so the user loop writes into the caller's imported env_vars.
args_after_merge_env_aliased(user_cfg, imported_cfg) ==
    [user_config     |-> user_cfg,
     imported_config |->
        IF "env_vars" \in DOMAIN imported_cfg
        THEN put(imported_cfg, "env_vars",
                 merge_env_vars(user_cfg, imported_cfg).merged_env)
        ELSE imported_cfg]

\* The argument objects as a call leaves them: merged, merged_env,
\* merged_ports, seen_ports and warnings are objects the call creates, and
\* the arguments are only read (get, items, set(...), list(...)).
args_after_merge(user_cfg, imported_cfg) ==
    [user_config |-> user_cfg, imported_config |-> imported_cfg]

\* One call: the returned dict and the arguments afterwards.
merge_config(user_cfg, imported_cfg) ==
    [result |-> merge_result(user_cfg, imported_cfg),
     args   |-> args_after_merge(user_cfg, imported_cfg)]

(***************************************************************************)
(* Inputs of the merger                                                    *)
(***************************************************************************)

MaxEnvVars == 2      \* entries of an env_vars dict
MaxLanguages == 2    \* length of a languages list
MaxPorts == 2        \* length of a ports list
MaxCalls == 2        \* merge_config calls on the same arguments

\* Sequences over S of length at most n.
SeqsUpTo(S, n) == UNION {[1..k -> S] : k \in 0..n}

EnvKeys == {"A", "AB", "B"}
EnvValues == {"x", "y"}
LanguagePool == {"go", "golang", "node", "php"}
PortPool == {80, 443, 8080}
ExtraKeys == {"workspace", "theme", "warnings"}

\* dicts: no key twice
EnvDicts ==
    {d \in SeqsUpTo(EnvKeys \X EnvValues, MaxEnvVars) :
        \A i, j \in DOMAIN d : d[i][1] = d[j][1] => i = j}

\* lists: any order, repetitions allowed
LanguageLists == SeqsUpTo(LanguagePool, MaxLanguages)
PortLists == SeqsUpTo(PortPool, MaxPorts)

EmptyConfig == [key \in {} |-> << >>]

\* The components a specification does not exercise hold nothing.
MergerIdle ==
    /\ user_config = EmptyConfig
    /\ imported_config = EmptyConfig
    /\ merged = None
    /\ merged_before = None
    /\ calls = 0

MapperIdle ==
    /\ config = None
    /\ mapping = None
    /\ shared = {}

DetectorIdle ==
    /\ image = None
    /\ detected = None

SecurityIdle ==
    /\ sensitive_value = None
    /\ masked_value = None
    /\ port_list = None
    /\ port_validation = None

SessionsIdle ==
    /\ sessions = << >>
    /\ last_errors = << >>

BuildIdle ==
    /\ build_process = None
    /\ build_log = << >>
    /\ builds = << >>
    /\ build_response = None

PortalIdle ==
    /\ setup_complete = FALSE
    /\ env_file = None
    /\ runtime_script = FALSE
    /\ handlers = << >>

ParserIdle ==
    /\ jsonschema = "absent"
    /\ document = None
    /\ file_path = None
    /\ content = None
    /\ stage = "returned"
    /\ decoded = None
    /\ schema_errors = None
    /\ outcome = None

\* The sections a family of inputs does not vary: all absent on both sides,
\* or all present on both sides.
Backgrounds ==
    {<<EmptyConfig, EmptyConfig>>,
     <<[env_vars  |-> << <<"A", "x">>, <<"B", "y">>, <<"AB", "x">> >>,
        languages |-> <<"php">>,
        ports     |-> <<8080, 80>>,
        workspace |-> <<"user">>],
       [env_vars  |-> << <<"B", "x">>, <<"C", "y">>, <<"AB", "x">> >>,
        languages |-> <<"go">>,
        ports     |-> <<80, 443>>,
        workspace |-> <<"imported">>]>>}

\* Pass-through keys: any subset of ExtraKeys, each with the given value.
ExtraConfigs(value) ==
    {[key \in keys |-> value] : keys \in SUBSET ExtraKeys}

\* The caller's two configurations: one section varied over all its values
\* on both sides, the other sections taken from a background.
VariedSection(section, values) ==
    \E u \in values, i \in values, bg \in Backgrounds :
        /\ user_config = (section :> u) @@ bg[1]
        /\ imported_config = (section :> i) @@ bg[2]

VariedExtras ==
    \E eu \in ExtraConfigs(<<"user">>), ei \in ExtraConfigs(<<"imported">>),
       bg \in Backgrounds :
        /\ user_config = eu @@ bg[1]
        /\ imported_config = ei @@ bg[2]

(***************************************************************************)
(* The merger as a state machine: a caller holds two configurations and    *)
(* calls merge_config on them, repeatedly.                                 *)
(***************************************************************************)

InitMerge ==
    /\ \/ VariedSection("env_vars", EnvDicts)
       \/ VariedSection("languages", LanguageLists)
       \/ VariedSection("ports", PortLists)
       \/ VariedExtras
    /\ merged = None
    /\ merged_before = None
    /\ calls = 0
    /\ MapperIdle
    /\ DetectorIdle
    /\ ParserIdle
    /\ SecurityIdle
    /\ SessionsIdle
    /\ PortalIdle
    /\ BuildIdle

MergeCall ==
    /\ calls < MaxCalls
    /\ LET call == merge_config(user_config, imported_config)
       IN  /\ merged' = call.result
           /\ user_config' = call.args.user_config
           /\ imported_config' = call.args.imported_config
    /\ merged_before' = merged
    /\ calls' = calls + 1
    /\ UNCHANGED <<mapper_vars, detector_vars, parser_vars, security_vars,
                   session_vars, portal_vars, build_vars>>

NextMerge == MergeCall

SpecMerge == InitMerge /\ [][NextMerge]_vars

(***************************************************************************)
(* Properties of merge_config                                              *)
(***************************************************************************)

user_env == get(user_config, "env_vars", << >>)
imported_env == get(imported_config, "env_vars", << >>)

\* Keys present on both sides with differing values.
ConflictKeys ==
    {key \in dict_keys(user_env) \cap dict_keys(imported_env) :
        dict_get(user_env, key) # dict_get(imported_env, key)}

\* Warning w is about key: it names key as the conflicting variable.
names_key(w, key) == startswith(w, "Environment variable '" \o key \o "' ")

\* Warning w names key as the conflicting variable, kept as the user value
\* and discarded as the imported value.
names_conflict(w, key, kept, discarded) ==
    /\ names_key(w, key)
    /\ contains(w, "user value '" \o kept \o "'")
    /\ contains(w, "imported value '" \o discarded \o "'")

\* C1: for every env var key present in both configurations with differing
\* values, the result's env_vars holds the user's value under that key, and
\* exactly one entry of the result's warnings names that key with the kept
\* user value and the discarded imported value.
C1_UserPrecedence ==
    calls > 0 =>
        \A key \in ConflictKeys :
            /\ key \in dict_keys(merged.env_vars)
            /\ dict_get(merged.env_vars, key) = dict_get(user_env, key)
            /\ Cardinality({j \in DOMAIN merged.warnings :
                   names_conflict(merged.warnings[j], key,
                                  dict_get(user_env, key),
                                  dict_get(imported_env, key))}) = 1

\* A merge has run on configurations with two conflicting keys, one of them
\* a prefix of the other.
C1_Witness ==
    /\ calls > 0
    /\ {"A", "AB"} \subseteq ConflictKeys

\* C2: warnings has exactly one entry per key present on both sides with
\* differing values and no other entry; a key with the same value on both
\* sides, or present on one side only, has no warning.
C2_WarningsAreTheConflicts ==
    calls > 0 =>
        /\ Len(merged.warnings) = Cardinality(ConflictKeys)
        /\ \A key \in ConflictKeys :
               \E j \in DOMAIN merged.warnings :
                   names_key(merged.warnings[j], key)
        /\ \A key \in (dict_keys(user_env) \cup dict_keys(imported_env))
                        \ ConflictKeys :
               \A j \in DOMAIN merged.warnings :
                   ~ names_key(merged.warnings[j], key)

\* A merge has run on configurations with a conflicting key, a key with the
\* same value on both sides, a key only the user has and a key only imported.
C2_Witness ==
    /\ calls > 0
    /\ ConflictKeys # {}
    /\ \E key \in dict_keys(user_env) \cap dict_keys(imported_env) :
           dict_get(user_env, key) = dict_get(imported_env, key)
    /\ dict_keys(user_env) \ dict_keys(imported_env) # {}
    /\ dict_keys(imported_env) \ dict_keys(user_env) # {}

\* C3: the keys of the result's env_vars are the union of the user's and the
\* imported keys; a key only imported keeps the imported value, a key only
\* the user has keeps the user value.
C3_NoEnvVarLost ==
    calls > 0 =>
        /\ dict_keys(merged.env_vars)
               = dict_keys(user_env) \cup dict_keys(imported_env)
        /\ \A key \in dict_keys(imported_env) \ dict_keys(user_env) :
               dict_get(merged.env_vars, key) = dict_get(imported_env, key)
        /\ \A key \in dict_keys(user_env) \ dict_keys(imported_env) :
               dict_get(merged.env_vars, key) = dict_get(user_env, key)

\* A merge has run with a key only the user has and a key only imported.
C3_Witness ==
    /\ calls > 0
    /\ dict_keys(imported_env) \ dict_keys(user_env) # {}
    /\ dict_keys(user_env) \ dict_keys(imported_env) # {}

user_languages == get(user_config, "languages", << >>)
imported_languages == get(imported_config, "languages", << >>)

\* C4: the result's languages are in strictly ascending lexicographic order
\* (so without duplicates) and, as a set, the union of both inputs.
C4_LanguagesSortedUnion ==
    calls > 0 =>
        /\ \A i \in 1..(Len(merged.languages) - 1) :
               str_lt(merged.languages[i], merged.languages[i + 1])
        /\ set_of(merged.languages)
               = set_of(user_languages) \cup set_of(imported_languages)

\* A merge has run on an unsorted user list with a repeated language and a
\* language one is a prefix of, both sides contributing.
C4_Witness ==
    /\ calls > 0
    /\ user_languages = <<"node", "golang">>
    /\ imported_languages = <<"golang", "go">>
    /\ merged.languages = <<"go", "golang", "node">>

user_ports == get(user_config, "ports", << >>)
imported_ports == get(imported_config, "ports", << >>)

\* Index of the first occurrence of x in list l.
FirstIndex(l, x) ==
    CHOOSE i \in DOMAIN l : l[i] = x /\ \A j \in 1..(i - 1) : l[j] # x

\* C5: the result's ports are the user's ports followed by the imported
\* ports with later duplicates removed: every port of either input occurs
\* exactly once, ordered by first occurrence in that concatenation.
C5_PortsFirstOccurrence ==
    calls > 0 =>
        LET all == user_ports \o imported_ports
        IN  /\ set_of(merged.ports) = set_of(all)
            /\ \A p, q \in DOMAIN merged.ports :
                   p < q => FirstIndex(all, merged.ports[p])
                                < FirstIndex(all, merged.ports[q])

\* A merge has run with a port repeated across the sides and a port only
\* the import has, which is smaller than the user's.
C5_Witness ==
    /\ calls > 0
    /\ user_ports = <<8080, 443>>
    /\ imported_ports = <<443, 80>>
    /\ merged.ports = <<8080, 443, 80>>

\* The top-level keys that are not sections of their own.
PassThroughKeys ==
    (DOMAIN user_config \cup DOMAIN imported_config) \ handled_keys

\* Key is carried: the user's value if the user defines it, else the
\* imported value.
Carried(key) ==
    /\ key \in DOMAIN merged
    /\ merged[key] = IF key \in DOMAIN user_config THEN user_config[key]
                     ELSE imported_config[key]

\* C6 as stated: every top-level key other than env_vars, languages and
\* ports is carried into the result, the user's value first.
C6_EveryOtherKeyCarried ==
    calls > 0 => \A key \in PassThroughKeys : Carried(key)

\* C6 amended: every top-level key other than env_vars, languages, ports
\* and warnings is carried into the result, the user's value first; a
\* warnings key of an input is not carried, the result's warnings being the
\* list of conflict warnings.
C6_OtherKeysCarriedButWarnings ==
    calls > 0 =>
        /\ \A key \in PassThroughKeys \ {"warnings"} : Carried(key)
        /\ \A j \in DOMAIN merged.warnings :
               \E key \in ConflictKeys : names_key(merged.warnings[j], key)

\* A merge has run with a key both sides define, a key only the import
\* defines, and a warnings key in the user's configuration.
C6_Witness ==
    /\ calls > 0
    /\ "workspace" \in DOMAIN user_config \cap DOMAIN imported_config
    /\ user_config["workspace"] # imported_config["workspace"]
    /\ "theme" \in DOMAIN imported_config \ DOMAIN user_config
    /\ "warnings" \in DOMAIN user_config

MappingResult ==
    [languages             |-> {},
     env_vars              |-> << >>,
     ports                 |-> << >>,
     unrecognized_features |-> << >>,
     warnings              |-> << >>]

\* Faulty variant of FEATURE_MAPPINGS: the first prefix of php stops after
\* its first letter, so that it is a prefix of python's too.
FEATURE_MAPPINGS_short_php_prefix ==
    [n \in 1..8 |->
        LET language == <<"python", "node", "go", "rust", "java", "dotnet",
                          "ruby", "php">>[n]
        IN  [language |-> language,
             patterns |->
                 <<"ghcr.io/devcontainers/features/"
                       \o (IF language = "php" THEN "p" ELSE language),
                   (IF language = "dotnet"
                    THEN "ghcr.io/microsoft/devcontainers/features/"
                    ELSE "ghcr.io/devcontainers-contrib/features/")
                       \o language>>]]

\* The table, in its order: language and the prefixes that indicate it.
FEATURE_MAPPINGS ==
    << [language |-> "python",
        patterns |-> <<"ghcr.io/devcontainers/features/python",
                       "ghcr.io/devcontainers-contrib/features/python">>],
       [language |-> "node",
        patterns |-> <<"ghcr.io/devcontainers/features/node",
                       "ghcr.io/devcontainers-contrib/features/node">>],
       [language |-> "go",
        patterns |-> <<"ghcr.io/devcontainers/features/go",
                       "ghcr.io/devcontainers-contrib/features/go">>],
       [language |-> "rust",
        patterns |-> <<"ghcr.io/devcontainers/features/rust",
                       "ghcr.io/devcontainers-contrib/features/rust">>],
       [language |-> "java",
        patterns |-> <<"ghcr.io/devcontainers/features/java",
                       "ghcr.io/devcontainers-contrib/features/java">>],
       [language |-> "dotnet",
        patterns |-> <<"ghcr.io/devcontainers/features/dotnet",
                       "ghcr.io/microsoft/devcontainers/features/dotnet">>],
       [language |-> "ruby",
        patterns |-> <<"ghcr.io/devcontainers/features/ruby",
                       "ghcr.io/devcontainers-contrib/features/ruby">>],
       [language |-> "php",
        patterns |-> <<"ghcr.io/devcontainers/features/php",
                       "ghcr.io/devcontainers-contrib/features/php">>] >>

\* Faulty variant of IMAGE_LANGUAGE_KEYWORDS: golang stands for itself.
IMAGE_LANGUAGE_KEYWORDS_golang_kept ==
    ("python" :> "python") @@ ("node" :> "node") @@ ("golang" :> "golang")
    @@ ("go" :> "go") @@ ("rust" :> "rust") @@ ("java" :> "java")
    @@ ("dotnet" :> "dotnet") @@ ("ruby" :> "ruby") @@ ("php" :> "php")
    @@ ("swift" :> "swift") @@ ("dart" :> "dart")

IMAGE_LANGUAGE_KEYWORDS ==
    ("python" :> "python") @@ ("node" :> "node") @@ ("golang" :> "go")
    @@ ("go" :> "go") @@ ("rust" :> "rust") @@ ("java" :> "java")
    @@ ("dotnet" :> "dotnet") @@ ("ruby" :> "ruby") @@ ("php" :> "php")
    @@ ("swift" :> "swift") @@ ("dart" :> "dart")

\* Faulty variant of detect_in_parts: a word matches when a keyword occurs
\* anywhere in it.
RECURSIVE detect_in_parts_substring(_, _)
detect_in_parts_substring(acc, parts) ==
    IF parts = << >> THEN acc
    ELSE LET part == Head(parts)
             hits == {k \in DOMAIN IMAGE_LANGUAGE_KEYWORDS : contains(part, k)}
             next ==
                 IF hits # {}
                 THEN LET lang_id ==
                              IMAGE_LANGUAGE_KEYWORDS[CHOOSE k \in hits : TRUE]
                      IN  IF lang_id \notin acc.seen
                          THEN [seen     |-> acc.seen \cup {lang_id},
                                detected |-> Append(acc.detected, lang_id)]
                          ELSE acc
                 ELSE acc
         IN  detect_in_parts_substring(next, Tail(parts))

\* The inner loop over the words of one segment, on acc = [detected, seen].
RECURSIVE detect_in_parts(_, _)
detect_in_parts(acc, parts) ==
    IF parts = << >> THEN acc
    ELSE LET part == Head(parts)
             next ==
                 IF part \in DOMAIN IMAGE_LANGUAGE_KEYWORDS
                 THEN LET lang_id == IMAGE_LANGUAGE_KEYWORDS[part]
                      IN  IF lang_id \notin acc.seen
                          THEN [seen     |-> acc.seen \cup {lang_id},
                                detected |-> Append(acc.detected, lang_id)]
                          ELSE acc
                 ELSE acc
         IN  detect_in_parts(next, Tail(parts))

\* The outer loop over the path segments.
RECURSIVE detect_in_segments(_, _)
detect_in_segments(acc, segments) ==
    IF segments = << >> THEN acc
    ELSE detect_in_segments(
             detect_in_parts(acc, split(replace(Head(segments), "_", "-"), "-")),
             Tail(segments))

\* Faulty variant of detect_language_from_image: only what follows the last
\* ':' is taken for the tag.
detect_language_from_image_last_colon(img) ==
    IF is_None(img) \/ img.str = "" \/ strip(img.str) = "" THEN << >>
    ELSE LET image_lower == strip(lower(img.str))
             undigested  == split(image_lower, "@")[1]
             pieces      == split(undigested, ":")
             image_path  ==
                 IF Len(pieces) = 1 THEN undigested
                 ELSE SubSeq(undigested, 1,
                             Len(undigested) - Len(pieces[Len(pieces)]) - 1)
             segments    == split(image_path, "/")
         IN  detect_in_segments([seen |-> {}, detected |-> << >>],
                                segments).detected

\* detect_language_from_image(image), image being None or Str(s)
detect_language_from_image(img) ==
    IF is_None(img) \/ img.str = "" \/ strip(img.str) = "" THEN << >>
    ELSE LET image_lower == strip(lower(img.str))
             image_path  == split(split(image_lower, "@")[1], ":")[1]
             segments    == split(image_path, "/")
         IN  detect_in_segments([seen |-> {}, detected |-> << >>],
                                segments).detected

\* Faulty variant of matches_language: only the first pattern of a language is
\* tested.
matches_language_first_pattern(feature_id, patterns) ==
    startswith(feature_id, patterns[1])

\* The pattern loop for one language: some pattern is a prefix.
matches_language(feature_id, patterns) ==
    \E i \in DOMAIN patterns : startswith(feature_id, patterns[i])

\* The language loop: the first language, in table order, with a matching
\* pattern.
RECURSIVE match_feature(_, _)
match_feature(feature_id, mappings) ==
    IF mappings = << >> THEN [matched |-> FALSE]
    ELSE IF matches_language(feature_id, Head(mappings).patterns)
         THEN [matched |-> TRUE, language |-> Head(mappings).language]
         ELSE match_feature(feature_id, Tail(mappings))

unrecognized_warning(feature_id) ==
    "Feature '" \o feature_id \o "' not mapped to any ForgeKeeper language runtime"

\* Faulty variant of record_unrecognized: the feature id is put first, not last.
record_unrecognized_in_front(result, feature_id) ==
    [result EXCEPT
        !.unrecognized_features = <<feature_id>> \o @,
        !.warnings = Append(@, unrecognized_warning(feature_id))]

\* if not matched: ...
record_unrecognized(result, feature_id) ==
    [result EXCEPT
        !.unrecognized_features = Append(@, feature_id),
        !.warnings = Append(@, unrecognized_warning(feature_id))]

\* The body of the feature loop.
map_feature(result, feature_id) ==
    LET found == match_feature(feature_id, FEATURE_MAPPINGS)
    IN  IF found.matched
        THEN [result EXCEPT !.languages = @ \cup {found.language}]
        ELSE record_unrecognized(result, feature_id)

\* for feature_id in config.features: ...
RECURSIVE map_feature_ids(_, _)
map_feature_ids(result, features) ==
    IF features = << >> THEN result
    ELSE map_feature_ids(map_feature(result, Head(features)[1]), Tail(features))

\* Faulty variant of add_image_languages: the detected languages replace the
\* languages found so far.
add_image_languages_replacing(result, img) ==
    IF ~ is_None(img) /\ img.str # ""
    THEN [result EXCEPT
             !.languages = set_of(detect_language_from_image(img))]
    ELSE result

\* if config.image: for lang in self.detect_language_from_image(...): ...
add_image_languages(result, img) ==
    IF ~ is_None(img) /\ img.str # ""
    THEN [result EXCEPT
             !.languages = @ \cup set_of(detect_language_from_image(img))]
    ELSE result

map_features(cfg) ==
    LET from_features == map_feature_ids(MappingResult, cfg.features)
        with_image    == add_image_languages(from_features, cfg.image)
    IN  [with_image EXCEPT !.env_vars = cfg.remote_env,
                           !.ports = cfg.forward_ports]

\* Faulty variant of result_shares: the result is given the descriptor's own
\* dict and list.
result_shares_aliased(cfg) == {"remote_env", "forward_ports"}

\* The fields of the descriptor whose object the result of map_features
\* refers to: none, dict(...) and list(...) build new objects, and the
\* values they hold are immutable.
result_shares(cfg) == {}

\* The descriptor as map_features leaves it: the function only reads it.
config_after_map_features(cfg) == cfg

\* result.env_vars[key] = value, done by a caller on a result that shares
\* the fields in shares with the descriptor cfg.
set_result_env_var(result, cfg, shares, key, value) ==
    [result |-> [result EXCEPT !.env_vars = dict_set(@, key, value)],
     config |-> IF "remote_env" \in shares
                THEN [cfg EXCEPT !.remote_env = dict_set(@, key, value)]
                ELSE cfg]

\* result.ports.append(port), likewise.
append_result_port(result, cfg, shares, port) ==
    [result |-> [result EXCEPT !.ports = Append(@, port)],
     config |-> IF "forward_ports" \in shares
                THEN [cfg EXCEPT !.forward_ports = Append(@, port)]
                ELSE cfg]

(***************************************************************************)
(* Inputs of the mapper                                                    *)
(***************************************************************************)

MaxFeatures == 3     \* entries of a descriptor's features

\* DevcontainerConfig(features=..., image=..., remote_env=...,
\* forward_ports=...), the other fields at their defaults.
DevcontainerConfig(features, img, remote_env, forward_ports) ==
    [features       |-> features,
     customizations |-> EmptyConfig,
     forward_ports  |-> forward_ports,
     remote_env     |-> remote_env,
     image          |-> img,
     dockerfile     |-> None,
     raw            |-> EmptyConfig]

FeaturePool ==
    {"ghcr.io/devcontainers/features/python:1",
     "ghcr.io/devcontainers-contrib/features/python",
     "ghcr.io/devcontainers/features/node:latest",
     "ghcr.io/devcontainers/features/golang",
     "ghcr.io/microsoft/devcontainers/features/dotnet:2",
     "ghcr.io/devcontainers/features/docker-in-docker:2",
     "ghcr.io/devcontainers/features/git:1"}

\* features: a dict from feature id to options, no id twice
FeatureDicts ==
    {[i \in DOMAIN ids |-> <<ids[i], EmptyConfig>>] :
        ids \in {l \in SeqsUpTo(FeaturePool, MaxFeatures) :
                    \A i, j \in DOMAIN l : l[i] = l[j] => i = j}}

ImagePool ==
    {None, Str(""), Str("  "), Str(" node:20\n"),
     Str("python:3.11"), Str("golang:1.21"), Str("ubuntu:22.04"),
     Str("python-node:latest"), Str("my_python_image"),
     Str("mcr.microsoft.com/devcontainers/Rust:1"),
     Str("registry.local:5000/python:3.11"),
     Str("gopher/pythonic@sha256:php")}

\* remote_env and forward_ports: both empty, or both filled.
PassedThrough ==
    {<<<< >>, << >>>>,
     <<<< <<"MY_VAR", "hello">> >>, <<3000, 8080, 3000>>>>}

(***************************************************************************)
(* The mapper as a state machine: a caller holds a parsed descriptor and   *)
(* calls map_features on it.                                               *)
(***************************************************************************)

InitMap ==
    /\ \E features \in FeatureDicts, img \in ImagePool,
          passed \in PassedThrough :
           config = DevcontainerConfig(features, img, passed[1], passed[2])
    /\ mapping = None
    /\ shared = {}
    /\ MergerIdle
    /\ DetectorIdle
    /\ ParserIdle
    /\ SecurityIdle
    /\ SessionsIdle
    /\ PortalIdle
    /\ BuildIdle

MapCall ==
    /\ is_None(mapping)
    /\ mapping' = map_features(config)
    /\ config' = config_after_map_features(config)
    /\ shared' = result_shares(config)
    /\ UNCHANGED <<merger_vars, detector_vars, parser_vars, security_vars,
                   session_vars, portal_vars, build_vars>>

NextMap == MapCall

SpecMap == InitMap /\ [][NextMap]_vars

(***************************************************************************)
(* Properties of map_features                                              *)
(***************************************************************************)

\* The feature ids of the descriptor, in dict order.
feature_ids == [i \in DOMAIN config.features |-> config.features[i][1]]

\* The languages of the table that have a prefix feature_id starts with.
LanguagesOf(feature_id) ==
    {FEATURE_MAPPINGS[n].language : n \in
        {n \in DOMAIN FEATURE_MAPPINGS :
            \E i \in DOMAIN FEATURE_MAPPINGS[n].patterns :
                startswith(feature_id, FEATURE_MAPPINGS[n].patterns[i])}}

\* Positions of the features that match a prefix, and of those that do not.
MatchedAt == {i \in DOMAIN feature_ids : LanguagesOf(feature_ids[i]) # {}}
UnmatchedAt == DOMAIN feature_ids \ MatchedAt

\* Number of entries of list l equal to x.
Occurrences(l, x) == Cardinality({i \in DOMAIN l : l[i] = x})

C9_UnrecognizedInOrder ==
    ~ is_None(mapping) =>
        /\ DOMAIN mapping = DOMAIN MappingResult
        /\ Len(mapping.unrecognized_features) = Cardinality(UnmatchedAt)
        /\ \A n \in DOMAIN mapping.unrecognized_features :
               \E i \in UnmatchedAt :
                   /\ Cardinality({j \in UnmatchedAt : j <= i}) = n
                   /\ mapping.unrecognized_features[n] = feature_ids[i]
        /\ Len(mapping.warnings) = Len(mapping.unrecognized_features)
        /\ \A n \in DOMAIN mapping.warnings :
               contains(mapping.warnings[n],
                        "'" \o mapping.unrecognized_features[n] \o "'")

\* map_features has run on two unrecognized features with a recognized one
\* between them.
C9_Witness ==
    /\ ~ is_None(mapping)
    /\ UnmatchedAt = {1, 3}
    /\ Len(mapping.warnings) = 2

\* The image is a str with a character that is not whitespace.
ImageIsNonBlank ==
    /\ ~ is_None(config.image)
    /\ \E i \in 1..Len(config.image.str) :
           char_at(config.image.str, i) \notin Whitespace

\* C10: languages is the set of languages the features match, united with
\* the languages detect_language_from_image returns for the image when the
\* image is a str that is not empty or all whitespace; the image adds no
\* unrecognized_features entry and no warning: there is one of each per
\* feature that matches no prefix.
C10_LanguagesFromFeaturesAndImage ==
    ~ is_None(mapping) =>
        /\ \A i \in MatchedAt : Cardinality(LanguagesOf(feature_ids[i])) = 1
        /\ mapping.languages
               = UNION {LanguagesOf(feature_ids[i]) : i \in MatchedAt}
                 \cup (IF ImageIsNonBlank
                       THEN set_of(detect_language_from_image(config.image))
                       ELSE {})
        /\ Len(mapping.unrecognized_features) = Cardinality(UnmatchedAt)
        /\ Len(mapping.warnings) = Cardinality(UnmatchedAt)

\* map_features has run on a feature of one language and an image of two
\* other languages.
C10_Witness ==
    /\ ~ is_None(mapping)
    /\ config.image = Str("python-node:latest")
    /\ Len(feature_ids) = 1
    /\ mapping.languages = {"go", "python", "node"}

(***************************************************************************)
(* Inputs of detect_language_from_image                                    *)
(***************************************************************************)

MaxWords == 3        \* words of a generated image path

ImageWords == {"go", "golang", "Python", "gopher"}
WordSeparators == {"/", "-", "_"}

\* words[1] seps[1] words[2] ... words[n]
RECURSIVE join_words(_, _)
join_words(words, seps) ==
    IF Len(words) = 1 THEN words[1]
    ELSE words[1] \o seps[1] \o join_words(Tail(words), Tail(seps))

ImagePaths ==
    UNION {{join_words(words, seps) :
                words \in [1..k -> ImageWords],
                seps \in [1..(k - 1) -> WordSeparators]} : k \in 1..MaxWords}

\* What stands before and after the path: nothing, a tag after an empty
\* word, surrounding whitespace with an empty segment and a digest, a port
\* followed by a repository and a tag.
ImageDecorations ==
    {<<"", "">>, <<"", "-:1.21">>, <<" /", "@sha256:go\n">>,
     <<"", ":5000/golang:1.21">>}

(***************************************************************************)
(* The detector as a state machine: a caller holds an image name and calls *)
(* detect_language_from_image on it.                                       *)
(***************************************************************************)

InitDetect ==
    /\ \/ image = None
       \/ image \in {Str(""), Str("   "), Str("\t\n")}
       \/ \E path \in ImagePaths, around \in ImageDecorations :
              image = Str(around[1] \o path \o around[2])
    /\ detected = None
    /\ MergerIdle
    /\ MapperIdle
    /\ ParserIdle
    /\ SecurityIdle
    /\ SessionsIdle
    /\ PortalIdle
    /\ BuildIdle

DetectCall ==
    /\ is_None(detected)
    /\ detected' = [languages |-> detect_language_from_image(image)]
    /\ image' = image
    /\ UNCHANGED <<merger_vars, mapper_vars, parser_vars, security_vars,
                   session_vars, portal_vars, build_vars>>

NextDetect == DetectCall

SpecDetect == InitDetect /\ [][NextDetect]_vars

(***************************************************************************)
(* Properties of detect_language_from_image                                *)
(***************************************************************************)

\* The image name with case folded and surrounding whitespace removed.
NormalizedImage == strip(lower(image.str))

\* Where the digest or tag of the name s begins: its first '@' or ':', or
\* past its end.
TagStart(s) ==
    LET marks == {i \in 1..Len(s) : char_at(s, i) \in {"@", ":"}}
    IN  IF marks = {} THEN Len(s) + 1
        ELSE CHOOSE i \in marks : \A j \in marks : i <= j

\* The name s without digest and tag.
ImagePath(s) == SubSeq(s, 1, TagStart(s) - 1)

\* The words of p, each as <<first, last>>: the stretches between two
\* successive separators, or between a separator and an end of p.
WordsOf(p) ==
    LET limits == {k \in 1..Len(p) : char_at(p, k) \in WordSeparators}
                      \cup {0, Len(p) + 1}
    IN  {<<a + 1, b - 1>> :
            <<a, b>> \in {ab \in limits \X limits :
                             /\ ab[1] + 1 < ab[2]
                             /\ \A c \in limits : ~ (ab[1] < c /\ c < ab[2])}}

\* The language a keyword stands for: itself, but go for golang.
LanguageOfKeyword(word) == IF word = "golang" THEN "go" ELSE word

\* For each position of p where a word that is a known keyword starts, the
\* language of that word.
KeywordLanguages(p) ==
    LET keywords == {w \in WordsOf(p) :
                        SubSeq(p, w[1], w[2]) \in DOMAIN IMAGE_LANGUAGE_KEYWORDS}
    IN  [i \in {w[1] : w \in keywords} |->
            LET w == CHOOSE w \in keywords : w[1] = i
            IN  LanguageOfKeyword(SubSeq(p, w[1], w[2]))]

\* The first position where language_at gives the language.
FirstStart(language_at, language) ==
    LET starts == {i \in DOMAIN language_at : language_at[i] = language}
    IN  CHOOSE i \in starts : \A j \in starts : i <= j

ImageIsBlank == is_None(image) \/ strip(image.str) = ""

\* C11: the languages returned are those of exactly the words of the image
\* path (lowercased, digest and tag removed, split on '/', '-' and '_') that
\* equal a known keyword, each language once, in the order of its first
\* word, golang and go both giving go; None, "" and all-whitespace names give
\* the empty list.
C11_WholeWordKeywordsInOrder ==
    ~ is_None(detected) =>
        LET d == detected.languages
        IN  IF ImageIsBlank THEN d = << >>
            ELSE LET language_at == KeywordLanguages(ImagePath(NormalizedImage))
                     first == [l \in set_of(d) |-> FirstStart(language_at, l)]
                 IN  /\ set_of(d) = {language_at[i] : i \in DOMAIN language_at}
                     /\ \A a, b \in DOMAIN d : a < b => first[d[a]] < first[d[b]]

\* The detector has run on a name where golang and go both occur, after a
\* word that only contains a keyword, and python comes first.
C11_Witness ==
    /\ ~ is_None(detected)
    /\ image = Str(" /Python/gopher-golang@sha256:go\n")
    /\ detected.languages = <<"python", "go">>

\* The registry host of the name s carries a port: s has a ':' before its
\* first '/'.
has_port(s) ==
    LET colons  == {i \in 1..Len(s) : char_at(s, i) = ":"}
        slashes == {i \in 1..Len(s) : char_at(s, i) = "/"}
    IN  /\ slashes # {}
        /\ \E c \in colons : \A k \in slashes : c < k

HostHasPort == ~ ImageIsBlank /\ has_port(NormalizedImage)

\* C12 as stated: a name whose host carries a port yields no language.
C12_PortedHostYieldsNothing ==
    (~ is_None(detected) /\ HostHasPort) => detected.languages = << >>

\* C12: for a name whose host carries a port, only the words of the host
\* name before the port count: the repository path after the port adds no
\* language, and a host name without a keyword word yields none.
C12_PortedHostOnlyHostWords ==
    (~ is_None(detected) /\ HostHasPort) =>
        LET name == NormalizedImage
            colons == {i \in 1..Len(name) : char_at(name, i) = ":"}
            port_at == CHOOSE c \in colons : \A k \in colons : c <= k
            language_at == KeywordLanguages(SubSeq(name, 1, port_at - 1))
        IN  set_of(detected.languages)
                = {language_at[i] : i \in DOMAIN language_at}

\* The detector has run on a host with a port whose repository is a keyword
\* and whose host name holds none as a word.
C12_Witness ==
    /\ ~ is_None(detected)
    /\ image = Str("gopher:5000/golang:1.21")
    /\ HostHasPort
    /\ detected.languages = << >>

(***************************************************************************)
(* The mapper's result in the hands of its caller: after map_features, the *)
(* caller adds to the result's env_vars and ports.                         *)
(***************************************************************************)

AddedEnvKeys == {"A", "NEW"}     \* a key the descriptor may hold, and a new one
AddedEnvValue == "added"
AddedPort == 9999

InitCopy ==
    /\ \E features \in {<< >>, << <<"ghcr.io/devcontainers/features/go:1",
                                    EmptyConfig>> >>},
          img \in {None, Str("python:3.11")},
          remote_env \in EnvDicts, forward_ports \in PortLists :
           config = DevcontainerConfig(features, img, remote_env, forward_ports)
    /\ mapping = None
    /\ shared = {}
    /\ MergerIdle
    /\ DetectorIdle
    /\ ParserIdle
    /\ SecurityIdle
    /\ SessionsIdle
    /\ PortalIdle
    /\ BuildIdle

SetResultEnvVar ==
    /\ ~ is_None(mapping)
    /\ \A i \in DOMAIN mapping.env_vars : mapping.env_vars[i][2] # AddedEnvValue
    /\ \E key \in AddedEnvKeys :
           LET after == set_result_env_var(mapping, config, shared,
                                           key, AddedEnvValue)
           IN  /\ mapping' = after.result
               /\ config' = after.config
    /\ UNCHANGED <<shared, merger_vars, detector_vars, parser_vars,
                   security_vars, session_vars, portal_vars, build_vars>>

AppendResultPort ==
    /\ ~ is_None(mapping)
    /\ AddedPort \notin set_of(mapping.ports)
    /\ LET after == append_result_port(mapping, config, shared, AddedPort)
       IN  /\ mapping' = after.result
           /\ config' = after.config
    /\ UNCHANGED <<shared, merger_vars, detector_vars, parser_vars,
                   security_vars, session_vars, portal_vars, build_vars>>

NextCopy == MapCall \/ SetResultEnvVar \/ AppendResultPort

SpecCopy == InitCopy /\ [][NextCopy]_vars

SUPPORTED_LANGS ==
    <<"python", "node", "go", "rust", "java", "dotnet", "ruby", "php",
      "swift", "dart">>

\* C14: every language of a map_features result is one of the ten supported
\* languages: every language a feature prefix or an image keyword stands for
\* is, and a result holds no other.
C14_LanguagesAreSupported ==
    /\ \A i \in DOMAIN FEATURE_MAPPINGS :
           FEATURE_MAPPINGS[i].language \in set_of(SUPPORTED_LANGS)
    /\ \A keyword \in DOMAIN IMAGE_LANGUAGE_KEYWORDS :
           IMAGE_LANGUAGE_KEYWORDS[keyword] \in set_of(SUPPORTED_LANGS)
    /\ ~ is_None(mapping) =>
           /\ mapping.languages \subseteq set_of(SUPPORTED_LANGS)
           /\ mapping.languages \subseteq
                  {FEATURE_MAPPINGS[i].language : i \in DOMAIN FEATURE_MAPPINGS}
                  \cup {IMAGE_LANGUAGE_KEYWORDS[keyword] :
                            keyword \in DOMAIN IMAGE_LANGUAGE_KEYWORDS}

\* map_features has run on features of two languages, an unknown feature and
\* an image of a third language.
C14_Witness ==
    /\ ~ is_None(mapping)
    /\ config.image = Str("mcr.microsoft.com/devcontainers/Rust:1")
    /\ Len(feature_ids) = 3
    /\ Len(mapping.unrecognized_features) = 1
    /\ mapping.languages = {"go", "dotnet", "rust"}

(***************************************************************************)
(* The descriptor parser (scripts/devcontainer_parser.py).                 *)
(*                                                                         *)
(* Decoded JSON values are modelled as follows.                            *)
(*   null          None                                                    *)
(*   true, false   Bool(b)                                                 *)
(*   integer       Integer(n)                                              *)
(*   other number  Float(text), text being the literal                     *)
(*   string        Str(s)                                                  *)
(*   array         List(items), items a sequence of values                 *)
(*   object        Dict(pairs), pairs a sequence of <<key, value>> with    *)
(*                 distinct keys, in insertion order                       *)
(* JSON texts are strings of printable ASCII, tab and newline; \u escapes  *)
(* are outside the model.                                                  *)
(***************************************************************************)

Bool(b) == [bool |-> b]
Integer(n) == [int |-> n]
Float(text) == [float |-> text]
List(items) == [list |-> items]
Dict(pairs) == [dict |-> pairs]

\* isinstance(v, ...) on decoded values.  A bool is an int in Python, so
\* isinstance(True, int) holds.
is_bool(v) == "bool" \in DOMAIN v
is_str(v) == "str" \in DOMAIN v
is_float(v) == "float" \in DOMAIN v
is_list(v) == "list" \in DOMAIN v
is_dict(v) == "dict" \in DOMAIN v
is_int(v) == "int" \in DOMAIN v \/ is_bool(v)

Digits == "0123456789"

DigitValue ==
    [c \in chars_of(Digits) |->
        (CHOOSE i \in 1..Len(Digits) : char_at(Digits, i) = c) - 1]

\* str(n) for an int
RECURSIVE str_of_nat(_)
str_of_nat(n) ==
    IF n < 10 THEN char_at(Digits, n + 1)
    ELSE str_of_nat(n \div 10) \o char_at(Digits, (n % 10) + 1)

str_of_int(n) == IF n < 0 THEN "-" \o str_of_nat(0 - n) ELSE str_of_nat(n)

\* The value of a string of decimal digits.
RECURSIVE nat_of_digits(_, _)
nat_of_digits(text, acc) ==
    IF text = "" THEN acc
    ELSE nat_of_digits(Tail(text), 10 * acc + DigitValue[Head(text)])

(***************************************************************************)
(* json.loads: json.decoder and json.scanner.  Positions are 1-based       *)
(* indexes into the text; a scan gives Decoded(value, end), end being the  *)
(* index after the value, or Failed(msg, pos).                             *)
(***************************************************************************)

Decoded(value, end) == [ok |-> TRUE, value |-> value, end |-> end]
Failed(msg, pos) == [ok |-> FALSE, msg |-> msg, pos |-> pos]

JsonWhitespace == {" ", "\t", "\n", "\r"}
ControlCharacters == {"\t", "\n", "\r", "\f"}

\* WHITESPACE.match(s, i).end()
RECURSIVE skip_whitespace(_, _)
skip_whitespace(s, i) ==
    IF i <= Len(s) /\ char_at(s, i) \in JsonWhitespace
    THEN skip_whitespace(s, i + 1)
    ELSE i

\* s[i:i+1], "" past the end
next_char(s, i) == IF i <= Len(s) THEN char_at(s, i) ELSE ""

\* s[i:i+len(word)] == word
has_at(s, i, word) ==
    /\ i + Len(word) - 1 <= Len(s)
    /\ SubSeq(s, i, i + Len(word) - 1) = word

\* BACKSLASH: the character each one-letter escape stands for
Escapes ==
    ("\"" :> "\"") @@ ("\\" :> "\\") @@ ("/" :> "/") @@ ("n" :> "\n")
    @@ ("r" :> "\r") @@ ("t" :> "\t") @@ ("f" :> "\f")

\* scanstring(s, end): the string whose opening quote is at begin, read from
\* i on.
RECURSIVE scanstring(_, _, _, _)
scanstring(s, begin, i, acc) ==
    IF i > Len(s) THEN Failed("Unterminated string starting at", begin)
    ELSE LET c == char_at(s, i)
         IN  IF c = "\"" THEN Decoded(Str(acc), i + 1)
             ELSE IF c \in ControlCharacters
             THEN Failed("Invalid control character at", i)
             ELSE IF c = "\\"
             THEN IF i + 1 > Len(s)
                  THEN Failed("Unterminated string starting at", begin)
                  ELSE IF char_at(s, i + 1) \in DOMAIN Escapes
                  THEN scanstring(s, begin, i + 2,
                                  acc \o Escapes[char_at(s, i + 1)])
                  ELSE Failed("Invalid \\escape", i)
             ELSE scanstring(s, begin, i + 1, acc \o c)

\* The index after the digits that start at i.
RECURSIVE digits_end(_, _)
digits_end(s, i) ==
    IF i <= Len(s) /\ char_at(s, i) \in chars_of(Digits)
    THEN digits_end(s, i + 1)
    ELSE i

\* NUMBER_RE.match(s, i): (-?(?:0|[1-9]\d*))(\.\d+)?([eE][-+]?\d+)?
match_number(s, i) ==
    LET first    == IF next_char(s, i) = "-" THEN i + 1 ELSE i
        int_end  == IF next_char(s, first) = "0" THEN first + 1
                    ELSE digits_end(s, first)
        frac_end == IF next_char(s, int_end) = "."
                       /\ digits_end(s, int_end + 1) > int_end + 1
                    THEN digits_end(s, int_end + 1)
                    ELSE int_end
        exp_from == IF next_char(s, frac_end + 1) \in {"-", "+"}
                    THEN frac_end + 2 ELSE frac_end + 1
        exp_end  == IF next_char(s, frac_end) \in {"e", "E"}
                       /\ digits_end(s, exp_from) > exp_from
                    THEN digits_end(s, exp_from)
                    ELSE frac_end
    IN  IF int_end = first THEN [matched |-> FALSE]
        ELSE [matched |-> TRUE,
              end     |-> exp_end,
              value   |->
                  IF exp_end > int_end
                  THEN Float(SubSeq(s, i, exp_end - 1))
                  ELSE LET n == nat_of_digits(SubSeq(s, first, int_end - 1), 0)
                       IN  Integer(IF first > i THEN 0 - n ELSE n)]

RECURSIVE scan_once(_, _)
RECURSIVE object_pairs(_, _, _)
RECURSIVE array_items(_, _, _)

\* JSONObject: i is the index after '{'.
JSONObject(s, i) ==
    LET at == skip_whitespace(s, i)
    IN  IF next_char(s, at) = "}" THEN Decoded(Dict(<< >>), at + 1)
        ELSE IF next_char(s, at) # "\""
        THEN Failed("Expecting property name enclosed in double quotes", at)
        ELSE object_pairs(s, at + 1, << >>)

\* The while loop of JSONObject: i is the index after the key's opening
\* quote.
object_pairs(s, i, pairs) ==
    LET key == scanstring(s, i - 1, i, "")
    IN  IF ~ key.ok THEN key
        ELSE
        LET colon == skip_whitespace(s, key.end)
        IN  IF next_char(s, colon) # ":"
            THEN Failed("Expecting ':' delimiter", colon)
            ELSE
            LET value == scan_once(s, skip_whitespace(s, colon + 1))
            IN  IF ~ value.ok THEN value
                ELSE
                LET more  == dict_set(pairs, key.value.str, value.value)
                    after == skip_whitespace(s, value.end)
                IN  IF next_char(s, after) = "}"
                    THEN Decoded(Dict(more), after + 1)
                    ELSE IF next_char(s, after) # ","
                    THEN Failed("Expecting ',' delimiter", after)
                    ELSE
                    LET quote == skip_whitespace(s, after + 1)
                    IN  IF next_char(s, quote) # "\""
                        THEN Failed("Expecting property name enclosed in double quotes",
                                    quote)
                        ELSE object_pairs(s, quote + 1, more)

\* JSONArray: i is the index after '['.
JSONArray(s, i) ==
    LET at == skip_whitespace(s, i)
    IN  IF next_char(s, at) = "]" THEN Decoded(List(<< >>), at + 1)
        ELSE array_items(s, at, << >>)

\* The while loop of JSONArray: i is the index where the next item starts.
array_items(s, i, items) ==
    LET value == scan_once(s, i)
    IN  IF ~ value.ok THEN value
        ELSE
        LET more  == Append(items, value.value)
            after == skip_whitespace(s, value.end)
        IN  IF next_char(s, after) = "]" THEN Decoded(List(more), after + 1)
            ELSE IF next_char(s, after) # ","
            THEN Failed("Expecting ',' delimiter", after)
            ELSE array_items(s, skip_whitespace(s, after + 1), more)

\* scan_once(s, i); StopIteration becomes "Expecting value" in every caller.
scan_once(s, i) ==
    LET c == next_char(s, i)
    IN  CASE c = "\"" -> scanstring(s, i, i + 1, "")
          [] c = "{" -> JSONObject(s, i + 1)
          [] c = "[" -> JSONArray(s, i + 1)
          [] c = "n" /\ has_at(s, i, "null") -> Decoded(None, i + 4)
          [] c = "t" /\ has_at(s, i, "true") -> Decoded(Bool(TRUE), i + 4)
          [] c = "f" /\ has_at(s, i, "false") -> Decoded(Bool(FALSE), i + 5)
          [] OTHER ->
               LET number == match_number(s, i)
               IN  IF number.matched THEN Decoded(number.value, number.end)
                   ELSE IF c = "N" /\ has_at(s, i, "NaN")
                   THEN Decoded(Float("NaN"), i + 3)
                   ELSE IF c = "I" /\ has_at(s, i, "Infinity")
                   THEN Decoded(Float("Infinity"), i + 8)
                   ELSE IF c = "-" /\ has_at(s, i, "-Infinity")
                   THEN Decoded(Float("-Infinity"), i + 9)
                   ELSE Failed("Expecting value", i)

\* JSONDecodeError(msg, doc, pos): lineno and colno as the exception
\* computes them, pos being 1-based here.
JSONDecodeError(msg, doc, pos) ==
    LET newlines == {k \in 1..(pos - 1) : char_at(doc, k) = "\n"}
        last     == IF newlines = {} THEN 0
                    ELSE CHOOSE k \in newlines : \A j \in newlines : j <= k
    IN  [raised |-> "JSONDecodeError",
         msg    |-> msg,
         lineno |-> Cardinality(newlines) + 1,
         colno  |-> pos - last]

\* json.loads(text): [raised |-> "", value |-> v], or the exception
\* raised.  text is None or Str(s).
json_loads(text) ==
    IF ~ is_str(text)
    THEN [raised  |-> "TypeError",
          message |-> "the JSON object must be str, bytes or bytearray, not NoneType"]
    ELSE LET s == text.str
             scan == scan_once(s, skip_whitespace(s, 1))
         IN  IF ~ scan.ok THEN JSONDecodeError(scan.msg, s, scan.pos)
             ELSE LET end == skip_whitespace(s, scan.end)
                  IN  IF end # Len(s) + 1
                      THEN JSONDecodeError("Extra data", s, end)
                      ELSE [raised |-> "", value |-> scan.value]

(***************************************************************************)
(* Schema validation                                                       *)
(***************************************************************************)

\* Python "key in data" and data[key] on a decoded object
has_key(data, key) == key \in dict_keys(data.dict)
item(data, key) == dict_get(data.dict, key)

\* DEVCONTAINER_SCHEMA["properties"], in the order of the dict.  items and
\* values are the types the schema allows for the items of an array and for
\* the values of an object, << >> when it does not constrain them.
DEVCONTAINER_SCHEMA ==
    << [property |-> "name",           type |-> "string",  items |-> << >>, values |-> << >>],
       [property |-> "image",          type |-> "string",  items |-> << >>, values |-> << >>],
       [property |-> "dockerfile",     type |-> "string",  items |-> << >>, values |-> << >>],
       [property |-> "build",          type |-> "object",  items |-> << >>, values |-> << >>],
       [property |-> "features",       type |-> "object",  items |-> << >>, values |-> << >>],
       [property |-> "customizations", type |-> "object",  items |-> << >>, values |-> << >>],
       [property |-> "forwardPorts",   type |-> "array",
        items |-> <<"integer", "string", "null">>,         values |-> << >>],
       [property |-> "remoteEnv",      type |-> "object",  items |-> << >>,
        values |-> <<"string">>],
       [property |-> "remoteUser",     type |-> "string",  items |-> << >>, values |-> << >>],
       [property |-> "containerEnv",   type |-> "object",  items |-> << >>,
        values |-> <<"string">>],
       [property |-> "containerUser",  type |-> "string",  items |-> << >>, values |-> << >>],
       [property |-> "updateRemoteUserUID", type |-> "boolean",
        items |-> << >>, values |-> << >>],
       [property |-> "mounts",         type |-> "array",   items |-> << >>, values |-> << >>],
       [property |-> "runArgs",        type |-> "array",   items |-> << >>, values |-> << >>],
       [property |-> "shutdownAction", type |-> "string",  items |-> << >>, values |-> << >>],
       [property |-> "overrideCommand", type |-> "boolean",
        items |-> << >>, values |-> << >>],
       [property |-> "workspaceFolder", type |-> "string", items |-> << >>, values |-> << >>],
       [property |-> "workspaceMount", type |-> "string",  items |-> << >>, values |-> << >>] >>

\* The state of the optional jsonschema import (lines 13 to 19): not
\* installed; installed with validate() raising the first error it finds
\* (jsonschema 2) and integers being int only; installed with validate()
\* raising the best match, the error of least depth and among those the
\* first (jsonschema 3 and 4), a float without fraction being an integer.
JsonschemaStates == {"absent", "first_error", "best_match"}

\* A float literal without exponent whose fraction digits are all 0.
float_is_integer(text) ==
    /\ \A i \in 1..Len(text) : char_at(text, i) \in chars_of(Digits) \cup {"-", "."}
    /\ \E dot \in 1..Len(text) :
           /\ char_at(text, dot) = "."
           /\ \A i \in (dot + 1)..Len(text) : char_at(text, i) = "0"

\* validator.is_type(instance, type)
is_type(v, type, library) ==
    CASE type = "object"  -> is_dict(v)
      [] type = "array"   -> is_list(v)
      [] type = "string"  -> is_str(v)
      [] type = "boolean" -> is_bool(v)
      [] type = "null"    -> is_None(v)
      [] type = "integer" ->
             \/ is_int(v) /\ ~ is_bool(v)
             \/ library = "best_match" /\ is_float(v) /\ float_is_integer(v.float)

\* ", ".join(f(x) for x in l)
RECURSIVE join_with_commas(_)
join_with_commas(l) ==
    IF l = << >> THEN ""
    ELSE IF Len(l) = 1 THEN l[1]
    ELSE l[1] \o ", " \o join_with_commas(Tail(l))

\* repr(s) for a str without backslash and control character
repr_str(s) ==
    IF contains(s, "'") /\ ~ contains(s, "\"") THEN "\"" \o s \o "\""
    ELSE "'" \o replace(s, "'", "\\'") \o "'"

\* repr(float(text))
repr_float(text) ==
    CASE text = "NaN" -> "nan"
      [] text = "Infinity" -> "inf"
      [] text = "-Infinity" -> "-inf"
      [] OTHER -> text

\* repr(v) for a decoded value
RECURSIVE repr(_)
repr(v) ==
    CASE is_None(v)  -> "None"
      [] is_bool(v)  -> IF v.bool THEN "True" ELSE "False"
      [] is_float(v) -> repr_float(v.float)
      [] is_str(v)   -> repr_str(v.str)
      [] is_list(v)  ->
             "[" \o join_with_commas([i \in DOMAIN v.list |-> repr(v.list[i])])
                 \o "]"
      [] is_dict(v)  ->
             "{" \o join_with_commas(
                        [i \in DOMAIN v.dict |->
                            repr_str(v.dict[i][1]) \o ": " \o repr(v.dict[i][2])])
                 \o "}"
      [] OTHER       -> str_of_int(v.int)

\* ValidationError of the "type" keyword: path and message
type_error(path, v, types) ==
    [path    |-> path,
     message |-> repr(v) \o " is not of type "
                     \o join_with_commas([i \in DOMAIN types |-> repr_str(types[i])])]

\* The errors of one property's subschema on its value, in the order
\* iter_errors yields them: the type error, or else one error per item or
\* value that has none of the allowed types.
property_errors(rule, v, library) ==
    IF ~ is_type(v, rule.type, library)
    THEN <<type_error(<<rule.property>>, v, <<rule.type>>)>>
    ELSE IF rule.items # << >>
    THEN LET bad == {i \in DOMAIN v.list :
                        \A t \in set_of(rule.items) : ~ is_type(v.list[i], t, library)}
             RECURSIVE from(_)
             from(i) ==
                 IF i > Len(v.list) THEN << >>
                 ELSE (IF i \in bad
                       THEN <<type_error(<<rule.property, str_of_int(i - 1)>>,
                                         v.list[i], rule.items)>>
                       ELSE << >>) \o from(i + 1)
         IN  from(1)
    ELSE IF rule.values # << >>
    THEN LET bad == {i \in DOMAIN v.dict :
                        \A t \in set_of(rule.values) : ~ is_type(v.dict[i][2], t, library)}
             RECURSIVE from(_)
             from(i) ==
                 IF i > Len(v.dict) THEN << >>
                 ELSE (IF i \in bad
                       THEN <<type_error(<<rule.property, v.dict[i][1]>>,
                                         v.dict[i][2], rule.values)>>
                       ELSE << >>) \o from(i + 1)
         IN  from(1)
    ELSE << >>

\* validator.iter_errors(data): the properties of the schema in order, each
\* checked when data has it; other properties are allowed.
RECURSIVE iter_errors(_, _, _)
iter_errors(data, rules, library) ==
    IF rules = << >> THEN << >>
    ELSE (IF has_key(data, Head(rules).property)
          THEN property_errors(Head(rules),
                               item(data, Head(rules).property), library)
          ELSE << >>)
         \o iter_errors(data, Tail(rules), library)

\* exceptions.best_match(errors): the first of the errors of least depth
best_match(errors) ==
    LET least == CHOOSE n \in {Len(errors[i].path) : i \in DOMAIN errors} :
                     \A i \in DOMAIN errors : n <= Len(errors[i].path)
        first == CHOOSE i \in DOMAIN errors :
                     /\ Len(errors[i].path) = least
                     /\ \A j \in 1..(i - 1) : Len(errors[j].path) # least
    IN  errors[first]

\* validate(instance=data, schema=...): << >> when it returns, else the one
\* ValidationError it raises.
validate(data, library) ==
    LET errors == iter_errors(data, DEVCONTAINER_SCHEMA, library)
    IN  IF errors = << >> THEN << >>
        ELSE IF library = "first_error" THEN <<errors[1]>>
        ELSE <<best_match(errors)>>

\* '.'.join(str(p) for p in e.path)
RECURSIVE join_with_dots(_)
join_with_dots(l) ==
    IF Len(l) = 1 THEN l[1] ELSE l[1] \o "." \o join_with_dots(Tail(l))

\* The message validate_schema appends for a ValidationError.
schema_failure_message(error) ==
    "Schema validation failed at '" \o join_with_dots(error.path) \o "': "
        \o error.message

\* One check of _basic_validation.
basic_check(data, property, holds(_), kind) ==
    IF has_key(data, property) /\ ~ holds(item(data, property))
    THEN <<"Property '" \o property \o "' must be " \o kind>>
    ELSE << >>

\* _basic_validation(data)
basic_validation(data) ==
    basic_check(data, "features", is_dict, "an object")
    \o basic_check(data, "customizations", is_dict, "an object")
    \o basic_check(data, "forwardPorts", is_list, "an array")
    \o basic_check(data, "remoteEnv", is_dict, "an object")
    \o basic_check(data, "image", is_str, "a string")
    \o basic_check(data, "dockerfile", is_str, "a string")

\* Faulty variant of validate_schema: the fallback checks are always the
\* ones used.
validate_schema_basic_only(data, library) == basic_validation(data)

\* validate_schema(data), library being the state of the jsonschema import
validate_schema(data, library) ==
    IF library # "absent"
    THEN LET raised == validate(data, library)
         IN  [i \in DOMAIN raised |-> schema_failure_message(raised[i])]
    ELSE basic_validation(data)

(***************************************************************************)
(* Extraction                                                              *)
(***************************************************************************)

\* data.get(key, default) on a decoded object
data_get(data, key, default) ==
    IF has_key(data, key) THEN item(data, key) ELSE default

\* _extract_features and _extract_customizations: the dict under the key as
\* a sequence of <<key, value>>, empty when absent or not a dict
extract_dict(data, key) ==
    LET value == data_get(data, key, Dict(<< >>))
    IN  IF ~ is_dict(value) THEN << >> ELSE value.dict

\* {k: v for k, v in remote_env.items() if isinstance(v, str)}
RECURSIVE string_values(_)
string_values(pairs) ==
    IF pairs = << >> THEN << >>
    ELSE (IF is_str(Head(pairs)[2])
          THEN << <<Head(pairs)[1], Head(pairs)[2].str>> >>
          ELSE << >>) \o string_values(Tail(pairs))

\* _extract_env
extract_env(data) == string_values(extract_dict(data, "remoteEnv"))

\* _extract_image_config, one of its two halves: the str under the key, or
\* None
extract_optional_str(data, key) ==
    LET value == data_get(data, key, None)
    IN  IF ~ is_str(value) THEN None ELSE value

\* text is digits, with single underscores between digits allowed
is_digit_run(text) ==
    /\ text # ""
    /\ \A i \in 1..Len(text) :
           \/ char_at(text, i) \in chars_of(Digits)
           \/ /\ char_at(text, i) = "_"
              /\ 1 < i /\ i < Len(text)
              /\ char_at(text, i - 1) \in chars_of(Digits)
              /\ char_at(text, i + 1) \in chars_of(Digits)

\* The digits of text, underscores left out.
RECURSIVE without_underscores(_)
without_underscores(text) ==
    IF text = "" THEN ""
    ELSE (IF Head(text) = "_" THEN "" ELSE Head(text))
             \o without_underscores(Tail(text))

\* int(s) for a str: [ok |-> TRUE, value |-> n], or [ok |-> FALSE] for
\* ValueError.  Surrounding whitespace and a sign are accepted.
int_of_str(s) ==
    LET text   == strip(s)
        signed == text # "" /\ Head(text) \in {"+", "-"}
        digits == IF signed THEN Tail(text) ELSE text
    IN  IF ~ is_digit_run(digits) THEN [ok |-> FALSE]
        ELSE LET n == nat_of_digits(without_underscores(digits), 0)
             IN  [ok |-> TRUE,
                  value |-> IF signed /\ Head(text) = "-" THEN 0 - n ELSE n]

\* The body of the loop of _extract_ports on one entry: the ports it
\* appends.  A str that int() accepts becomes that int; anything that then
\* is an int, which in Python includes True and False, is appended.
extract_port(port) ==
    IF is_str(port)
    THEN LET converted == int_of_str(port.str)
         IN  IF converted.ok THEN <<Integer(converted.value)>> ELSE << >>
    ELSE IF is_int(port) THEN <<port>>
    ELSE << >>

\* _extract_ports(ports_data)
RECURSIVE extract_ports(_)
extract_ports(ports_data) ==
    IF ports_data = << >> THEN << >>
    ELSE extract_port(Head(ports_data)) \o extract_ports(Tail(ports_data))

\* Faulty variant of ExtractedConfig: raw is left at its default, {}.
ExtractedConfig_without_raw(data) ==
    [features       |-> extract_dict(data, "features"),
     customizations |-> extract_dict(data, "customizations"),
     forward_ports  |-> extract_ports(data_get(data, "forwardPorts",
                                               List(<< >>)).list),
     remote_env     |-> extract_env(data),
     image          |-> extract_optional_str(data, "image"),
     dockerfile     |-> extract_optional_str(data, "dockerfile"),
     raw            |-> Dict(<< >>)]

\* DevcontainerConfig(features=..., customizations=..., forward_ports=...,
\* remote_env=..., image=..., dockerfile=..., raw=...).  forward_ports holds
\* decoded values, Integer(n) or Bool(b).
ExtractedConfig(data) ==
    [features       |-> extract_dict(data, "features"),
     customizations |-> extract_dict(data, "customizations"),
     forward_ports  |-> extract_ports(data_get(data, "forwardPorts",
                                               List(<< >>)).list),
     remote_env     |-> extract_env(data),
     image          |-> extract_optional_str(data, "image"),
     dockerfile     |-> extract_optional_str(data, "dockerfile"),
     raw            |-> data]

(***************************************************************************)
(* parse_content and parse_file                                            *)
(***************************************************************************)

\* Faulty variant of Failure: the errors are left at the default, [].
Failure_without_errors(errors) ==
    [success |-> FALSE, config |-> None, errors |-> << >>]

\* ParseResult(success=False, errors=...)
Failure(errors) == [success |-> FALSE, config |-> None, errors |-> errors]

\* ParseResult(success=True, config=config, errors=[])
Success(cfg) == [success |-> TRUE, config |-> cfg, errors |-> << >>]

\* How a call ends: it returns a ParseResult, or an exception leaves it.
Returned(result) == [returned |-> result]
Raised(exception) == [raised |-> exception]

invalid_json_error(e) ==
    "Invalid JSON syntax at line " \o str_of_int(e.lineno) \o ", column "
        \o str_of_int(e.colno) \o ": " \o e.msg

root_error == "Invalid devcontainer.json: root must be an object"

\* Faulty variant of unexpected_content_error: the exception is not caught.
unexpected_content_error_raised(e) == Raised(e)

\* except Exception as e, the outer handler of parse_content
unexpected_content_error(e) ==
    Returned(Failure(<<"Unexpected error parsing content: " \o e.message>>))

\* The states of a path on disk that parse_file tells apart, and what
\* read_text gives or raises for each.
read_text(file) ==
    CASE file.kind = "file"       -> [raised |-> "", text |-> file.text]
      [] file.kind = "unreadable" ->
             [raised |-> "PermissionError",
              message |-> "[Errno 13] Permission denied: " \o repr_str(file.path)]
      [] file.kind = "undecodable" ->
             [raised |-> "UnicodeDecodeError",
              message |-> "'utf-8' codec can't decode byte 0xff in position 0: invalid start byte"]

\* parse_file up to the call of parse_content: the ParseResult it returns
\* early, or the content it goes on with.
read_file(file) ==
    CASE file.kind = "missing" ->
             [failed |-> TRUE,
              result |-> Failure(<<"File not found: " \o file.path>>)]
      [] file.kind = "directory" ->
             [failed |-> TRUE,
              result |-> Failure(<<"Path is not a file: " \o file.path>>)]
      [] OTHER ->
             LET read == read_text(file)
             IN  IF read.raised = "PermissionError"
                 THEN [failed |-> TRUE,
                       result |-> Failure(<<"Permission denied reading "
                                                \o file.path>>)]
                 ELSE IF read.raised # ""
                 THEN [failed |-> TRUE,
                       result |-> Failure(<<"Error reading file " \o file.path
                                                \o ": " \o read.message>>)]
                 ELSE [failed |-> FALSE, content |-> Str(read.text)]

(***************************************************************************)
(* Inputs of the parser                                                    *)
(***************************************************************************)

MaxProperties == 2   \* properties of a generated descriptor
MaxPortEntries == 2  \* entries of a generated forwardPorts

\* json.dumps(s) for a str without control character
RECURSIVE dumps_str(_)
dumps_str(s) ==
    IF s = "" THEN ""
    ELSE (IF Head(s) \in {"\"", "\\"} THEN "\\" \o Head(s) ELSE Head(s))
             \o dumps_str(Tail(s))

\* json.dumps(v), as the tests build their texts
RECURSIVE dumps(_)
dumps(v) ==
    CASE is_None(v)  -> "null"
      [] is_bool(v)  -> IF v.bool THEN "true" ELSE "false"
      [] is_float(v) -> v.float
      [] is_str(v)   -> "\"" \o dumps_str(v.str) \o "\""
      [] is_list(v)  ->
             "[" \o join_with_commas([i \in DOMAIN v.list |-> dumps(v.list[i])])
                 \o "]"
      [] is_dict(v)  ->
             "{" \o join_with_commas(
                        [i \in DOMAIN v.dict |->
                            "\"" \o dumps_str(v.dict[i][1]) \o "\": "
                                \o dumps(v.dict[i][2])])
                 \o "}"
      [] OTHER       -> str_of_int(v.int)

\* For each type of the schema, a value of the type and two that are not.
ValuesByType ==
    [object  |-> <<Dict(<< <<"A", Str("x")>> >>), Str("x"), Integer(5)>>,
     array   |-> <<List(<<Integer(3000)>>), Str("8080"), Integer(5)>>,
     string  |-> <<Str("dev"), None, Integer(5)>>,
     boolean |-> <<Bool(TRUE), Str("yes"), Integer(5)>>]

\* Descriptors with one property of the schema, of its type or not, the
\* empty descriptor, and descriptors with a property the schema does not
\* know.
OnePropertyDocuments ==
    {Dict(<< <<DEVCONTAINER_SCHEMA[r].property,
               ValuesByType[DEVCONTAINER_SCHEMA[r].type][k]>> >>) :
        r \in DOMAIN DEVCONTAINER_SCHEMA, k \in 1..3}
    \cup {Dict(<< >>),
          Dict(<< <<"hostRequirements", Integer(5)>> >>),
          Dict(<< <<"containerEnv", Dict(<< <<"B", Integer(1)>> >>)>> >>)}

\* The properties descriptors of several properties are built from.
PropertyPool ==
    {<<"image", Str("python:3.11")>>,
     <<"image", None>>,
     <<"dockerfile", None>>,
     <<"features", Dict(<< <<"ghcr.io/devcontainers/features/python:1",
                             Dict(<< <<"version", Str("3.11")>> >>)>> >>)>>,
     <<"features", Str("should be object not string")>>,
     <<"forwardPorts", List(<<Integer(3000), None, Str("8080")>>)>>,
     <<"forwardPorts", Str("should be array not string")>>,
     <<"remoteEnv", Dict(<< <<"GOOD", Str("value")>>, <<"BAD", None>> >>)>>,
     <<"remoteEnv", Dict(<< <<"MY_VAR", Str("value")>> >>)>>,
     <<"customizations", List(<< >>)>>,
     <<"name", Integer(5)>>,
     <<"mounts", Str("m")>>,
     <<"hostRequirements", Integer(5)>>}

PropertyDocuments ==
    {Dict(pairs) :
        pairs \in {l \in SeqsUpTo(PropertyPool, MaxProperties) :
                      \A i, j \in DOMAIN l : l[i][1] = l[j][1] => i = j}}

\* The entries forwardPorts lists are built from.
PortEntries ==
    {Integer(3000), Str("8080"), Str(" 80 "), Str("invalid"), None,
     Bool(TRUE), Float("80.5"), Float("80.0"), Dict(<< >>), List(<< >>)}

PortDocuments ==
    {Dict(<< <<"forwardPorts", List(entries)>> >>) :
        entries \in SeqsUpTo(PortEntries, MaxPortEntries)}

\* Texts that are not JSON, or not a JSON object.
OtherTexts ==
    {"", "{", "{\"image\": \"test\", invalid json}",
     "{\n  \"image\": \"python:3.11\",\n  \"forwardPorts\": [3000\n}",
     "{\"image\": \"python:3.11\"} {}", "{\"features\": {},}",
     "[\"array\", \"not\", \"object\"]", "null", "42", "\"image\""}

\* The descriptors a caller serialises with json.dumps.
Documents == OnePropertyDocuments \cup PropertyDocuments \cup PortDocuments

\* The contents that are not made from a descriptor.
Contents == {Str(text) : text \in OtherTexts} \cup {None}

DevcontainerPath == "/workspace/.devcontainer/devcontainer.json"

\* What parse_file may find at the path.
Files ==
    {[path |-> DevcontainerPath, kind |-> kind] :
        kind \in {"missing", "directory", "unreadable", "undecodable"}}
    \cup {[path |-> DevcontainerPath, kind |-> "file", text |-> text.str] :
              text \in {Str(dumps(d)) : d \in OnePropertyDocuments}
                           \cup {Str(text) : text \in OtherTexts}}

(***************************************************************************)
(* The parser as a state machine: a caller calls parse_content on a text,  *)
(* or parse_file on a path, and the call runs its steps in program order.  *)
(***************************************************************************)

InitParse ==
    /\ jsonschema \in JsonschemaStates
    /\ \/ /\ file_path = None
          /\ document \in Documents
          /\ content = Str(dumps(document))
          /\ stage = "json_decoding"
       \/ /\ file_path = None
          /\ document = None
          /\ content \in Contents
          /\ stage = "json_decoding"
       \/ /\ file_path \in Files
          /\ document = None
          /\ content = None
          /\ stage = "read_file"
    /\ decoded = None
    /\ schema_errors = None
    /\ outcome = None
    /\ MergerIdle
    /\ MapperIdle
    /\ DetectorIdle
    /\ SecurityIdle
    /\ SessionsIdle
    /\ PortalIdle
    /\ BuildIdle

\* The call ends with this outcome.
Return(result) ==
    /\ outcome' = result
    /\ stage' = "returned"

\* except Exception as e, the outer handler of parse_file, around an outcome
\* of parse_content
outcome_of_call(result) ==
    IF "raised" \in DOMAIN result /\ ~ is_None(file_path)
    THEN Returned(Failure(<<"Unexpected error parsing file: "
                                \o result.raised.message>>))
    ELSE result

\* parse_file, lines 97 to 126
ReadFile ==
    /\ stage = "read_file"
    /\ LET read == read_file(file_path)
       IN  IF read.failed
           THEN Return(Returned(read.result)) /\ content' = content
           ELSE content' = read.content /\ stage' = "json_decoding"
                    /\ outcome' = outcome
    /\ UNCHANGED <<jsonschema, document, file_path, decoded, schema_errors>>
    /\ UNCHANGED <<merger_vars, mapper_vars, detector_vars, security_vars,
                   session_vars, portal_vars, build_vars>>

\* parse_content, lines 149 to 155
JsonDecoding ==
    /\ stage = "json_decoding"
    /\ decoded' = json_loads(content)
    /\ CASE decoded'.raised = "" ->
                /\ stage' = "root_check"
                /\ outcome' = outcome
         [] decoded'.raised = "JSONDecodeError" ->
                Return(Returned(Failure(<<invalid_json_error(decoded')>>)))
         [] OTHER ->
                Return(outcome_of_call(unexpected_content_error(decoded')))
    /\ UNCHANGED <<jsonschema, document, file_path, content, schema_errors>>
    /\ UNCHANGED <<merger_vars, mapper_vars, detector_vars, security_vars,
                   session_vars, portal_vars, build_vars>>

\* parse_content, lines 157 to 162
RootCheck ==
    /\ stage = "root_check"
    /\ IF ~ is_dict(decoded.value)
       THEN Return(Returned(Failure(<<root_error>>)))
       ELSE stage' = "schema_validation" /\ outcome' = outcome
    /\ UNCHANGED <<jsonschema, document, file_path, content, decoded, schema_errors>>
    /\ UNCHANGED <<merger_vars, mapper_vars, detector_vars, security_vars,
                   session_vars, portal_vars, build_vars>>

\* parse_content, lines 164 to 170
SchemaValidation ==
    /\ stage = "schema_validation"
    /\ schema_errors' = validate_schema(decoded.value, jsonschema)
    /\ IF schema_errors' # << >>
       THEN Return(Returned(Failure(schema_errors')))
       ELSE stage' = "extraction" /\ outcome' = outcome
    /\ UNCHANGED <<jsonschema, document, file_path, content, decoded>>
    /\ UNCHANGED <<merger_vars, mapper_vars, detector_vars, security_vars,
                   session_vars, portal_vars, build_vars>>

\* parse_content, lines 172 to 188
Extraction ==
    /\ stage = "extraction"
    /\ Return(Returned(Success(ExtractedConfig(decoded.value))))
    /\ UNCHANGED <<jsonschema, document, file_path, content, decoded, schema_errors>>
    /\ UNCHANGED <<merger_vars, mapper_vars, detector_vars, security_vars,
                   session_vars, portal_vars, build_vars>>

NextParse ==
    \/ ReadFile
    \/ JsonDecoding
    \/ RootCheck
    \/ SchemaValidation
    \/ Extraction

SpecParse == InitParse /\ [][NextParse]_vars

(***************************************************************************)
(* Properties of the parser                                                *)
(***************************************************************************)

\* The call has returned a ParseResult.
HasReturned == stage = "returned" /\ "returned" \in DOMAIN outcome

\* C15: a ParseResult returned by parse_content or parse_file is a success
\* with a config and no error, or a failure without config and with at least
\* one error.
C15_ResultIsSuccessOrFailure ==
    HasReturned =>
        LET result == outcome.returned
        IN  \/ /\ result.success
               /\ ~ is_None(result.config)
               /\ result.errors = << >>
            \/ /\ ~ result.success
               /\ is_None(result.config)
               /\ Len(result.errors) > 0

\* parse_file has read a file whose text is a JSON array and has returned
\* the failure of parse_content.
C15_Witness ==
    /\ HasReturned
    /\ ~ is_None(file_path)
    /\ file_path.kind = "file"
    /\ content = Str("[\"array\", \"not\", \"object\"]")
    /\ ~ outcome.returned.success
    /\ outcome.returned.errors = <<root_error>>

\* The stages of a call, in the order of the code.
StageOrder ==
    <<"read_file", "json_decoding", "root_check", "schema_validation",
      "extraction">>

\* json.loads has raised JSONDecodeError.
SyntaxError == ~ is_None(decoded) /\ decoded.raised = "JSONDecodeError"

\* json.loads has given a value.
IsDecoded == ~ is_None(decoded) /\ decoded.raised = ""

\* The number of line feeds of a text.
line_feeds(text) == Cardinality({i \in 1..Len(text) : char_at(text, i) = "\n"})

\* A step goes to the next stage or ends the call, and an ended call takes
\* no further step.
C16_StagesInOrder ==
    [][/\ stage # "returned"
       /\ \/ stage' = "returned"
          \/ \E i \in 1..(Len(StageOrder) - 1) :
                 stage = StageOrder[i] /\ stage' = StageOrder[i + 1]]_vars

\* The call stops at the first stage that fails, with the errors of that
\* stage only.
C16_StopsAtFirstFailure ==
    /\ stage = "returned" => "returned" \in DOMAIN outcome
    /\ SyntaxError =>
           /\ HasReturned
           /\ decoded.lineno \in 1..(line_feeds(content.str) + 1)
           /\ decoded.colno \in 1..(Len(content.str) + 1)
           /\ outcome.returned =
                  [success |-> FALSE, config |-> None,
                   errors |-> <<"Invalid JSON syntax at line "
                                    \o str_of_int(decoded.lineno)
                                    \o ", column " \o str_of_int(decoded.colno)
                                    \o ": " \o decoded.msg>>]
           /\ schema_errors = None
    /\ (IsDecoded /\ ~ is_dict(decoded.value) /\ stage = "returned") =>
           /\ outcome.returned =
                  [success |-> FALSE, config |-> None,
                   errors |-> <<"Invalid devcontainer.json: root must be an object">>]
           /\ schema_errors = None
    /\ (IsDecoded /\ is_dict(decoded.value) /\ stage = "returned") =>
           IF Len(schema_errors) > 0
           THEN outcome.returned =
                    [success |-> FALSE, config |-> None,
                     errors |-> schema_errors]
           ELSE outcome.returned.success
    /\ (HasReturned /\ outcome.returned.success) =>
           IsDecoded /\ is_dict(decoded.value)

\* C16: parse_content decodes, checks the root, validates and extracts in
\* this order and stops at the first stage that fails: a syntax error gives
\* the one error 'Invalid JSON syntax at line L, column C: message', a root
\* that is not an object gives the one error about the root and no schema
\* error, a schema violation gives a failure without config, and no
\* exception leaves the call.
C16_StagesStopAtFirstFailure ==
    C16_StagesInOrder /\ [] C16_StopsAtFirstFailure

\* parse_content has failed on a text whose syntax error is on its fourth
\* line, before any validation.
C16_Witness ==
    /\ is_None(file_path)
    /\ content = Str("{\n  \"image\": \"python:3.11\",\n  \"forwardPorts\": [3000\n}")
    /\ SyntaxError
    /\ HasReturned
    /\ outcome.returned.errors =
           <<"Invalid JSON syntax at line 4, column 1: Expecting ',' delimiter">>
    /\ is_None(schema_errors)

\* validate_schema has run on the decoded object.
Validated ==
    /\ stage \in {"extraction", "returned"}
    /\ IsDecoded
    /\ is_dict(decoded.value)

\* The known top-level properties by structural type.
MappingProperties == {"features", "customizations", "remoteEnv", "containerEnv"}
SequenceProperties == {"forwardPorts", "mounts", "runArgs"}
StringProperties ==
    {"image", "dockerfile", "name", "remoteUser", "containerUser",
     "shutdownAction", "workspaceFolder", "workspaceMount"}
BooleanProperties == {"updateRemoteUserUID", "overrideCommand"}

\* Some property of the set is present in data with a value that is not of
\* its structural type.
wrong_top_level_type(data, properties) ==
    \E i \in DOMAIN data.dict :
        LET key == data.dict[i][1]
            value == item(data, key)
        IN  /\ key \in properties
            /\ \/ key \in MappingProperties /\ ~ is_dict(value)
               \/ key \in SequenceProperties /\ ~ is_list(value)
               \/ key \in StringProperties /\ ~ is_str(value)
               \/ key \in BooleanProperties /\ ~ is_bool(value)
               \/ key = "build" /\ ~ is_dict(value)

\* forwardPorts is a list with an entry that is not an integer, a string or
\* null; a float without fraction is an integer for jsonschema 3 and later.
wrong_port_entry(data, library) ==
    /\ has_key(data, "forwardPorts")
    /\ is_list(item(data, "forwardPorts"))
    /\ \E i \in DOMAIN item(data, "forwardPorts").list :
           LET entry == item(data, "forwardPorts").list[i]
           IN  ~ \/ is_str(entry)
                 \/ is_None(entry)
                 \/ is_int(entry) /\ ~ is_bool(entry)
                 \/ /\ library = "best_match"
                    /\ is_float(entry)
                    /\ float_is_integer(entry.float)

\* remoteEnv or containerEnv is a dict with a value that is not a string.
wrong_env_value(data) ==
    \E key \in {"remoteEnv", "containerEnv"} :
        /\ has_key(data, key)
        /\ is_dict(item(data, key))
        /\ \E i \in DOMAIN item(data, key).dict :
               ~ is_str(item(data, key).dict[i][2])

\* The properties _basic_validation checks.
BasicProperties ==
    {"features", "customizations", "forwardPorts", "remoteEnv", "image",
     "dockerfile"}

wrong_typed_properties(data) ==
    {property \in MappingProperties \cup SequenceProperties
                      \cup StringProperties \cup BooleanProperties \cup {"build"} :
        wrong_top_level_type(data, {property})}

\* C18: a descriptor with k wrong-typed known properties, and no other
\* violation of the schema, makes parse_content return a failure of k
\* errors, each wrong-typed property being named by one of them.
C18_OneErrorPerViolation ==
    (HasReturned /\ Validated) =>
        LET wrong == wrong_typed_properties(decoded.value)
            errors == outcome.returned.errors
        IN  (/\ wrong # {}
             /\ ~ wrong_port_entry(decoded.value, jsonschema)
             /\ ~ wrong_env_value(decoded.value))
            => /\ ~ outcome.returned.success
               /\ Len(errors) = Cardinality(wrong)
               /\ \A property \in wrong :
                      \E i \in DOMAIN errors :
                          contains(errors[i], "'" \o property \o "'")

\* The ports a forwardPorts sequence stands for: its integers, and the
\* integer values of its strings that convert, in the order of the
\* sequence.  Booleans are not integers here.
RECURSIVE integer_ports(_)
integer_ports(entries) ==
    IF entries = << >> THEN << >>
    ELSE LET entry == Head(entries)
         IN  (IF is_int(entry) /\ ~ is_bool(entry) THEN <<entry>>
              ELSE IF is_str(entry) /\ int_of_str(entry.str).ok
              THEN <<Integer(int_of_str(entry.str).value)>>
              ELSE << >>) \o integer_ports(Tail(entries))

\* C19: when the ports of a forwardPorts sequence have been extracted,
\* forward_ports holds integers only, in input order: the integer entries
\* and the integer values of the string entries that convert; null, boolean,
\* object, list and fractional entries are dropped.
C19_OnlyIntegerPorts ==
    (/\ HasReturned
     /\ outcome.returned.success
     /\ has_key(decoded.value, "forwardPorts"))
    => LET forward_ports == outcome.returned.config.forward_ports
       IN  /\ \A i \in DOMAIN forward_ports :
                  is_int(forward_ports[i]) /\ ~ is_bool(forward_ports[i])
           /\ forward_ports
                  = integer_ports(item(decoded.value, "forwardPorts").list)

\* The call has failed, without config, with an error that has the word.
failed_mentioning(word) ==
    /\ ~ outcome.returned.success
    /\ is_None(outcome.returned.config)
    /\ \E i \in DOMAIN outcome.returned.errors :
           contains(outcome.returned.errors[i], word)

\* data has the property with the value null.
is_null_property(data, property) ==
    has_key(data, property) /\ is_None(item(data, property))

\* remoteEnv is a dict with a null value.
has_null_env_value(data) ==
    /\ has_key(data, "remoteEnv")
    /\ is_dict(item(data, "remoteEnv"))
    /\ \E i \in DOMAIN item(data, "remoteEnv").dict :
           is_None(item(data, "remoteEnv").dict[i][2])

\* data has forwardPorts only, a list of integers, strings and nulls, one
\* null at least.
has_only_ports_with_null(data) ==
    /\ Len(data.dict) = 1
    /\ has_key(data, "forwardPorts")
    /\ is_list(item(data, "forwardPorts"))
    /\ \A i \in DOMAIN item(data, "forwardPorts").list :
           LET entry == item(data, "forwardPorts").list[i]
           IN  is_None(entry) \/ is_str(entry) \/ (is_int(entry) /\ ~ is_bool(entry))
    /\ \E i \in DOMAIN item(data, "forwardPorts").list :
           is_None(item(data, "forwardPorts").list[i])

\* C20: parse_content fails, without config and with an error that mentions
\* the property, when image is null, when dockerfile is null and when a
\* value of remoteEnv is null; a null entry of forwardPorts is skipped and
\* the parse succeeds.
C20_NullsRejectedButNullPortsSkipped ==
    (HasReturned /\ Validated) =>
        LET data == decoded.value
        IN  /\ is_null_property(data, "image") => failed_mentioning("image")
            /\ is_null_property(data, "dockerfile") => failed_mentioning("dockerfile")
            /\ has_null_env_value(data) => failed_mentioning("remoteEnv")
            /\ has_only_ports_with_null(data) =>
                   /\ outcome.returned.success
                   /\ outcome.returned.config.forward_ports
                          = integer_ports(item(data, "forwardPorts").list)

\* Every known property the descriptor has is of its structural type, the
\* entries of forwardPorts are integers, strings or nulls and the values of
\* remoteEnv and containerEnv are strings.
structurally_valid(data) ==
    /\ wrong_typed_properties(data) = {}
    /\ ~ wrong_port_entry(data, "first_error")
    /\ ~ wrong_env_value(data)

\* The mapping a descriptor has under the key, empty when the key is missing.
mapping_of(data, key) ==
    IF has_key(data, key) THEN item(data, key).dict ELSE << >>

\* The entries of the descriptor's forwardPorts, none when the key is missing.
mapping_of_ports(data) ==
    IF has_key(data, "forwardPorts") THEN item(data, "forwardPorts").list
    ELSE << >>

\* C21: parse_content succeeds on the serialisation of a structurally valid
\* descriptor, and the config reproduces the descriptor: features and
\* customizations are its mappings (empty when missing), image and
\* dockerfile its strings (None when missing), forward_ports its ports as
\* integers, remote_env its string-valued remoteEnv entries and raw the
\* whole descriptor.
C21_ExtractionReproducesInput ==
    (/\ stage = "returned"
     /\ ~ is_None(document)
     /\ structurally_valid(document))
    => /\ HasReturned
       /\ outcome.returned.success
       /\ LET cfg == outcome.returned.config
              env == mapping_of(document, "remoteEnv")
          IN  /\ cfg.features = mapping_of(document, "features")
              /\ cfg.customizations = mapping_of(document, "customizations")
              /\ cfg.image = IF has_key(document, "image")
                             THEN item(document, "image") ELSE None
              /\ cfg.dockerfile = IF has_key(document, "dockerfile")
                                  THEN item(document, "dockerfile") ELSE None
              /\ cfg.forward_ports
                     = integer_ports(mapping_of_ports(document))
              /\ cfg.remote_env
                     = [i \in DOMAIN env |-> <<env[i][1], env[i][2].str>>]
              /\ cfg.raw = document

\* A descriptor with features and with the ports 3000, null and "8080" has
\* been parsed.
C21_Witness ==
    /\ HasReturned
    /\ ~ is_None(document)
    /\ has_key(document, "features")
    /\ has_key(document, "forwardPorts")
    /\ structurally_valid(document)
    /\ outcome.returned.success
    /\ Len(outcome.returned.config.features) = 1
    /\ outcome.returned.config.forward_ports = <<Integer(3000), Integer(8080)>>
    /\ outcome.returned.config.raw = document

(***************************************************************************)
(* security_utils: mask_value and validate_ports                           *)
(***************************************************************************)

\* s[:n] and s[-n:] of a str, n > 0
slice_to(s, n) == SubSeq(s, 1, IF n < Len(s) THEN n ELSE Len(s))
slice_last(s, n) == SubSeq(s, IF Len(s) > n THEN Len(s) - n + 1 ELSE 1, Len(s))

\* Faulty variant of mask_value: a value of five characters is fully masked
\* too.
mask_value_five_masked(v) ==
    IF Len(v) <= 5 THEN "***"
    ELSE slice_to(v, 2) \o "***" \o slice_last(v, 2)

mask_value(v) ==
    IF Len(v) <= 4 THEN "***"
    ELSE slice_to(v, 2) \o "***" \o slice_last(v, 2)

PortValidationResult(valid, invalid) ==
    [valid_ports |-> valid, invalid_ports |-> invalid]

\* Faulty variant of ports_in_range: 65535 is left out.
RECURSIVE ports_below_range_end(_)
ports_below_range_end(l) ==
    IF l = << >> THEN << >>
    ELSE (IF 1 <= Head(l) /\ Head(l) < 65535 THEN <<Head(l)>> ELSE << >>)
             \o ports_below_range_end(Tail(l))

\* [p for p in ports if 1 <= p <= 65535]
RECURSIVE ports_in_range(_)
ports_in_range(l) ==
    IF l = << >> THEN << >>
    ELSE (IF 1 <= Head(l) /\ Head(l) <= 65535 THEN <<Head(l)>> ELSE << >>)
             \o ports_in_range(Tail(l))

\* [p for p in ports if p < 1 or p > 65535]
RECURSIVE ports_out_of_range(_)
ports_out_of_range(l) ==
    IF l = << >> THEN << >>
    ELSE (IF Head(l) < 1 \/ Head(l) > 65535 THEN <<Head(l)>> ELSE << >>)
             \o ports_out_of_range(Tail(l))

validate_ports(l) ==
    PortValidationResult(ports_in_range(l), ports_out_of_range(l))

MaxValueLen == 7   \* characters of a value given to mask_value
MaxPortList == 3   \* length of a list given to validate_ports

\* The characters values are made of.
ValueAlphabet == {"a", "b", "*"}

RECURSIVE StringsOfLen(_, _)
StringsOfLen(alphabet, n) ==
    IF n = 0 THEN {""}
    ELSE {c \o rest : c \in alphabet, rest \in StringsOfLen(alphabet, n - 1)}

SensitiveValues ==
    UNION {StringsOfLen(ValueAlphabet, n) : n \in 0..MaxValueLen}

\* The ports lists are made of: the ends of the range, their neighbours and
\* two ports inside.
SecurityPortPool == {0 - 1, 0, 1, 8080, 65535, 65536}

InitSecurity ==
    /\ \/ /\ sensitive_value \in {Str(v) : v \in SensitiveValues}
          /\ port_list = None
       \/ /\ sensitive_value = None
          /\ port_list \in {[list |-> l] :
                               l \in SeqsUpTo(SecurityPortPool, MaxPortList)}
    /\ masked_value = None
    /\ port_validation = None
    /\ MergerIdle
    /\ MapperIdle
    /\ DetectorIdle
    /\ ParserIdle
    /\ SessionsIdle
    /\ PortalIdle
    /\ BuildIdle

MaskValueCall ==
    /\ ~ is_None(sensitive_value)
    /\ is_None(masked_value)
    /\ masked_value' = Str(mask_value(sensitive_value.str))
    /\ UNCHANGED <<sensitive_value, port_list, port_validation>>
    /\ UNCHANGED <<merger_vars, mapper_vars, detector_vars, parser_vars,
                   session_vars, portal_vars, build_vars>>

ValidatePortsCall ==
    /\ ~ is_None(port_list)
    /\ is_None(port_validation)
    /\ port_validation' = validate_ports(port_list.list)
    /\ UNCHANGED <<sensitive_value, masked_value, port_list>>
    /\ UNCHANGED <<merger_vars, mapper_vars, detector_vars, parser_vars,
                   session_vars, portal_vars, build_vars>>

NextSecurity == MaskValueCall \/ ValidatePortsCall

SpecSecurity == InitSecurity /\ [][NextSecurity]_vars

count_of(l, p) == Cardinality({i \in DOMAIN l : l[i] = p})

\* sub is made of elements of l at increasing positions of which picked
\* tells the ones, so it keeps the relative order of l.
keeps_order_of(sub, l, picked(_)) ==
    LET positions == {i \in DOMAIN l : picked(l[i])}
    IN  /\ Len(sub) = Cardinality(positions)
        /\ \A k \in DOMAIN sub :
               \E i \in positions :
                   /\ Cardinality({j \in positions : j <= i}) = k
                   /\ sub[k] = l[i]

\* C23: validate_ports puts every element of the list in exactly one of
\* valid_ports, when 1 <= p <= 65535, and invalid_ports, each in input
\* order, and the two together are a permutation of the list.
C23_PortsPartitioned ==
    ~ is_None(port_validation) =>
        LET l == port_list.list
            valid == port_validation.valid_ports
            invalid == port_validation.invalid_ports
            in_range(p) == p >= 1 /\ p <= 65535
            out_of_range(p) == ~ in_range(p)
        IN  /\ \A i \in DOMAIN valid : in_range(valid[i])
            /\ \A i \in DOMAIN invalid : out_of_range(invalid[i])
            /\ keeps_order_of(valid, l, in_range)
            /\ keeps_order_of(invalid, l, out_of_range)
            /\ Len(valid) + Len(invalid) = Len(l)
            /\ \A p \in SecurityPortPool :
                   count_of(valid, p) + count_of(invalid, p) = count_of(l, p)

\* validate_ports has split a list that has both ends of the range and a
\* repeated port outside it.
C23_Witness ==
    /\ ~ is_None(port_list)
    /\ port_list.list = <<65536, 65535, 65536>>
    /\ port_validation = [valid_ports |-> <<65535>>,
                          invalid_ports |-> <<65536, 65536>>]

(***************************************************************************)
(* Wizard sessions: each runs calls of parse_content, map_features and     *)
(* merge_config on the parser, mapper and merger that the process shares,  *)
(* one step at a time, interleaved with the steps of the other sessions.   *)
(***************************************************************************)

\* parse_content(content) for a str, run from its first to its last line
parse_decoded(loaded, library) ==
    IF loaded.raised = "JSONDecodeError"
    THEN Failure(<<invalid_json_error(loaded)>>)
    ELSE IF ~ is_dict(loaded.value) THEN Failure(<<root_error>>)
    ELSE IF validate_schema(loaded.value, library) # << >>
    THEN Failure(validate_schema(loaded.value, library))
    ELSE Success(ExtractedConfig(loaded.value))

parse_content(text, library) == parse_decoded(json_loads(Str(text)), library)

\* Faulty variant of new_errors_list: the list of the call before is used
\* again, as a mutable default argument would be.
errors_list_reused(leftover) == leftover

\* errors = [], line 206: a new list, whatever the call before left
new_errors_list(leftover) == << >>

\* validate_schema, lines 208 to 222, on the list of line 206
errors_of_validation(errors, data, library) ==
    errors \o validate_schema(data, library)

\* merge_config from line 49 on, env being what lines 29 to 47 made
merge_sections(env, user_cfg, imported_cfg) ==
    put(carry_imported_keys(
            carry_user_keys([env_vars  |-> env.merged_env,
                             languages |-> merge_languages(user_cfg, imported_cfg),
                             ports     |-> merge_ports(user_cfg, imported_cfg)],
                            user_cfg),
            imported_cfg),
        "warnings", env.warnings)

MaxSessionCalls == 2   \* calls a session makes

Sessions == {1, 2}

SessionCalls ==
    {[op |-> "parse_content", text |-> text] :
        text \in {"{", "{\"image\": null}",
                  "{\"image\": \"golang:1.21\", \"forwardPorts\": [3000]}"}}
    \cup {[op |-> "map_features",
           cfg |-> DevcontainerConfig(
                       << <<"ghcr.io/devcontainers/features/python:1", EmptyConfig>>,
                          <<"ghcr.io/devcontainers/features/git:1", EmptyConfig>> >>,
                       Str("golang:1.21"), << <<"MY_VAR", "hello">> >>, <<3000>>)]}
    \cup {[op |-> "merge_config",
           user_cfg |-> ("env_vars" :> << <<"A", "x">> >>) @@ ("ports" :> <<80>>),
           imported_cfg |-> ("env_vars" :> << <<"A", "y">> >>)
                                @@ ("languages" :> <<"go">>)]}

\* The first step of each operation.
FirstStage ==
    [parse_content |-> "json_decoding", map_features |-> "map_feature_ids",
     merge_config |-> "merge_env_vars"]

IdleSession ==
    [done |-> 0, failed_before |-> FALSE, call |-> None, stage |-> "idle",
     local |-> None, result |-> None]

InitSessions ==
    /\ sessions = [s \in Sessions |-> IdleSession]
    /\ last_errors = << >>
    /\ jsonschema \in JsonschemaStates
    /\ document = None
    /\ file_path = None
    /\ content = None
    /\ stage = "returned"
    /\ decoded = None
    /\ schema_errors = None
    /\ outcome = None
    /\ MergerIdle
    /\ MapperIdle
    /\ DetectorIdle
    /\ SecurityIdle
    /\ PortalIdle
    /\ BuildIdle

\* The session goes to the next step of its call.
Continue(s, next_stage, local) ==
    sessions' = [sessions EXCEPT ![s].stage = next_stage, ![s].local = local]

\* The call of the session returns.
Finish(s, result) ==
    sessions' =
        [sessions EXCEPT
            ![s].stage = "idle",
            ![s].local = None,
            ![s].result = result,
            ![s].done = @ + 1,
            ![s].failed_before =
                @ \/ (sessions[s].call.op = "parse_content" /\ ~ result.success)]

OthersUnchanged ==
    UNCHANGED <<merger_vars, mapper_vars, detector_vars, parser_vars,
                security_vars, portal_vars, build_vars>>

StartCall(s) ==
    /\ sessions[s].stage = "idle"
    /\ sessions[s].done < MaxSessionCalls
    /\ \E call \in SessionCalls :
           sessions' = [sessions EXCEPT ![s].call = call,
                                        ![s].stage = FirstStage[call.op],
                                        ![s].result = None]
    /\ UNCHANGED last_errors
    /\ OthersUnchanged

SessionJsonDecoding(s) ==
    /\ sessions[s].stage = "json_decoding"
    /\ IF json_loads(Str(sessions[s].call.text)).raised = "JSONDecodeError"
       THEN Finish(s, Failure(<<invalid_json_error(
                                    json_loads(Str(sessions[s].call.text)))>>))
       ELSE Continue(s, "root_check",
                     [data |-> json_loads(Str(sessions[s].call.text)).value])
    /\ UNCHANGED last_errors
    /\ OthersUnchanged

SessionRootCheck(s) ==
    /\ sessions[s].stage = "root_check"
    /\ IF ~ is_dict(sessions[s].local.data)
       THEN Finish(s, Failure(<<root_error>>))
       ELSE Continue(s, "schema_validation", sessions[s].local)
    /\ UNCHANGED last_errors
    /\ OthersUnchanged

SessionSchemaValidation(s) ==
    /\ sessions[s].stage = "schema_validation"
    /\ last_errors' = errors_of_validation(new_errors_list(last_errors),
                                           sessions[s].local.data, jsonschema)
    /\ IF last_errors' # << >>
       THEN Finish(s, Failure(last_errors'))
       ELSE Continue(s, "extraction", sessions[s].local)
    /\ OthersUnchanged

SessionExtraction(s) ==
    /\ sessions[s].stage = "extraction"
    /\ Finish(s, Success(ExtractedConfig(sessions[s].local.data)))
    /\ UNCHANGED last_errors
    /\ OthersUnchanged

\* map_features, lines 76 to 93
SessionMapFeatureIds(s) ==
    /\ sessions[s].stage = "map_feature_ids"
    /\ Continue(s, "add_image_languages",
                [result |-> map_feature_ids(MappingResult,
                                            sessions[s].call.cfg.features)])
    /\ UNCHANGED last_errors
    /\ OthersUnchanged

\* map_features, lines 95 to 106
SessionAddImageLanguages(s) ==
    /\ sessions[s].stage = "add_image_languages"
    /\ Finish(s, [add_image_languages(sessions[s].local.result,
                                      sessions[s].call.cfg.image)
                     EXCEPT !.env_vars = sessions[s].call.cfg.remote_env,
                            !.ports = sessions[s].call.cfg.forward_ports])
    /\ UNCHANGED last_errors
    /\ OthersUnchanged

\* merge_config, lines 25 to 47
SessionMergeEnvVars(s) ==
    /\ sessions[s].stage = "merge_env_vars"
    /\ Continue(s, "merge_sections",
                [env |-> merge_env_vars(sessions[s].call.user_cfg,
                                        sessions[s].call.imported_cfg)])
    /\ UNCHANGED last_errors
    /\ OthersUnchanged

\* merge_config, lines 49 to 77
SessionMergeSections(s) ==
    /\ sessions[s].stage = "merge_sections"
    /\ Finish(s, merge_sections(sessions[s].local.env,
                                sessions[s].call.user_cfg,
                                sessions[s].call.imported_cfg))
    /\ UNCHANGED last_errors
    /\ OthersUnchanged

NextSessions ==
    \E s \in Sessions :
        \/ StartCall(s)
        \/ SessionJsonDecoding(s)
        \/ SessionRootCheck(s)
        \/ SessionSchemaValidation(s)
        \/ SessionExtraction(s)
        \/ SessionMapFeatureIds(s)
        \/ SessionAddImageLanguages(s)
        \/ SessionMergeEnvVars(s)
        \/ SessionMergeSections(s)

SpecSessions == InitSessions /\ [][NextSessions]_vars

\* What the call returns when it runs alone, from its arguments only.
result_of_call(call, library) ==
    CASE call.op = "parse_content" -> parse_content(call.text, library)
      [] call.op = "map_features"  -> map_features(call.cfg)
      [] call.op = "merge_config"  ->
             merge_config(call.user_cfg, call.imported_cfg).result

reversed(l) == [i \in DOMAIN l |-> l[Len(l) + 1 - i]]

ReversedMappings ==
    reversed([n \in DOMAIN FEATURE_MAPPINGS |->
                 [language |-> FEATURE_MAPPINGS[n].language,
                  patterns |-> reversed(FEATURE_MAPPINGS[n].patterns)]])

\* No prefix of a language is the start of a prefix of another language,
\* which is what an identifier starting with both would need.
PrefixesExclusive ==
    \A m, n \in DOMAIN FEATURE_MAPPINGS :
        FEATURE_MAPPINGS[m].language # FEATURE_MAPPINGS[n].language =>
            \A i \in DOMAIN FEATURE_MAPPINGS[m].patterns,
               j \in DOMAIN FEATURE_MAPPINGS[n].patterns :
                ~ startswith(FEATURE_MAPPINGS[m].patterns[i],
                             FEATURE_MAPPINGS[n].patterns[j])

\* C26: a feature identifier starts with registered prefixes of one language
\* at most, so the language map_features gives it is the same when the
\* languages and prefixes are tried in the opposite order.
C26_OneLanguagePerFeature ==
    /\ PrefixesExclusive
    /\ \A i \in DOMAIN feature_ids :
           /\ Cardinality(LanguagesOf(feature_ids[i])) <= 1
           /\ match_feature(feature_ids[i], FEATURE_MAPPINGS)
                  = match_feature(feature_ids[i], ReversedMappings)
    /\ ~ is_None(mapping) =>
           mapping.languages
               \ set_of(detect_language_from_image(config.image))
               \subseteq UNION {LanguagesOf(feature_ids[i]) : i \in DOMAIN feature_ids}

\* map_features has mapped features of python, under both of its prefixes,
\* and of go, under an identifier that goes on after the prefix.
C26_Witness ==
    /\ ~ is_None(mapping)
    /\ Len(feature_ids) = 3
    /\ feature_ids[1] = "ghcr.io/devcontainers-contrib/features/python"
    /\ feature_ids[2] = "ghcr.io/devcontainers/features/golang"
    /\ feature_ids[3] = "ghcr.io/devcontainers/features/python:1"
    /\ is_None(config.image)
    /\ mapping.languages = {"python", "go"}

(***************************************************************************)
(* The two validation modes                                                *)
(***************************************************************************)

\* Some error of the sequence names the property between quotes.
names_property(errors, property) ==
    \E i \in DOMAIN errors : contains(errors[i], "'" \o property \o "'")

\* Every descriptor the fallback checks reject is rejected with jsonschema.
FallbackRejectsLess ==
    Validated =>
        (validate_schema(decoded.value, "absent") # << >> =>
            \A library \in JsonschemaStates :
                validate_schema(decoded.value, library) # << >>)

\* C27: when features, customizations, forwardPorts, remoteEnv, image or
\* dockerfile has the wrong top-level type, validate_schema returns an error
\* naming that property with jsonschema and without it, and what the
\* fallback checks reject is rejected with jsonschema too.
C27_ModesAgreeOnCoreProperties ==
    /\ FallbackRejectsLess
    /\ Validated =>
           \A property \in BasicProperties :
               wrong_top_level_type(decoded.value, {property}) =>
                   \A library \in JsonschemaStates :
                       names_property(validate_schema(decoded.value, library),
                                      property)

(***************************************************************************)
(* The portal server                                                       *)
(***************************************************************************)

ALLOWED_ACTIONS == {"shutdown", "reset"}
ALLOWED_LANGS ==
    {"python", "node", "go", "rust", "java", "dotnet", "ruby", "php", "swift",
     "dart"}

\* A response as the client sees it; location is "" without the header.
Response(status, location) == [status |-> status, location |-> location]
NoResponse == Response(0, "")

\* Faulty variant of gate_redirects: every request for / is sent to the
\* wizard.
gate_redirects_always(path, exists) == path = "/"

\* The condition of do_GET's setup gate.
gate_redirects(path, exists) == path = "/" /\ ~ exists

\* lang in ALLOWED_LANGS for an element of a decoded payload: a list or an
\* object is unhashable and makes the test raise TypeError.
is_unhashable(lang) == is_list(lang) \/ is_dict(lang)
in_allowed_langs(lang) == is_str(lang) /\ lang.str \in ALLOWED_LANGS

\* Faulty variant of installs_language: the language is not looked up.
installs_any_language(lang, exists) == exists

\* The condition under which _handle_setup starts the install of lang.
installs_language(lang, exists) == in_allowed_langs(lang) /\ exists

\* The text _handle_setup writes to ENV_FILE, of which the first line
\* depends on the payload's handle here; the other payloads keys are absent.
env_text(payload) ==
    "FORGEKEEPER_HANDLE="
        \o data_get(payload, "handle", Str("forgekeeper")).str \o "\n"
        \o "FORGEKEEPER_USER_EMAIL=dev@example.com\n"
        \o "FORGEKEEPER_WORKSPACE=workspace\n"
        \o "GIT_USER_NAME=\nGIT_USER_EMAIL=\nGITHUB_TOKEN=\n"
        \o "OPENAI_API_KEY=\nANTHROPIC_API_KEY=\n"
        \o "AWS_DEFAULT_REGION=us-east-1\n"

\* What running the control script does to the setup-complete marker.
control_script(marker) == marker

\* ---- Requests and handler threads ----

Handlers == {1, 2}

\* Selections of languages: allowed ones, one that is not, one twice, and
\* an entry that is a list.
Selections ==
    {<< >>,
     <<Str("python")>>,
     <<Str("cobol")>>,
     <<Str("python"), Str("go")>>,
     <<Str("python"), Str("cobol")>>,
     <<Str("cobol"), Str("python")>>,
     <<Str("python"), Str("python")>>,
     <<Str("python"), List(<< >>)>>,
     <<List(<< >>), Str("python")>>}

\* Payloads of the wizard's submit: a selection of languages, no languages
\* key, null for languages, and a body that is not an object.
SetupPayloads ==
    {Dict(<< <<"languages", List(selected)>> >>) :
        selected \in Selections}
    \cup {Dict(<< <<"handle", Str("dev")>> >>),
          Dict(<< <<"languages", None>> >>),
          List(<< >>)}

RuntimePayloads ==
    {Dict(<< <<"action", Str(action)>>, <<"lang", Str(lang)>> >>) :
        action \in {"install", "remove", "purge"}, lang \in {"python", "cobol"}}
    \cup {Dict(<< <<"action", Str("install")>> >>)}

ControlPayloads ==
    {Dict(<< <<"action", Str(action)>> >>) :
        action \in {"shutdown", "reset", "restart"}}

Request(method, path, payload) ==
    [method |-> method, path |-> path, payload |-> payload]

Requests ==
    {Request("GET", path, None) : path \in {"/", "/setup"}}
    \cup {Request("POST", "/forgekeeper/setup", payload) :
             payload \in SetupPayloads}
    \cup {Request("POST", "/setup/submit", Dict(<< >>)),
          Request("POST", "/forgekeeper/other", Dict(<< >>))}
    \cup {Request("POST", "/forgekeeper/runtime", payload) :
             payload \in RuntimePayloads}
    \cup {Request("POST", "/forgekeeper/control", payload) :
             payload \in ControlPayloads}

\* A handler thread: its request, the step it runs next, the index of the
\* selected language its loop is at, the commands it has started on the
\* runtime script, and its response.
Handler(request, at, position, started, response) ==
    [request  |-> request,
     stage    |-> at,
     position |-> position,
     started  |-> started,
     response |-> response]

IdleHandler == Handler(Request("", "", None), "idle", 1, << >>, NoResponse)

InitPortal ==
    /\ setup_complete = FALSE
    /\ env_file = None
    /\ runtime_script \in BOOLEAN
    /\ handlers = [h \in Handlers |-> IdleHandler]
    /\ MergerIdle
    /\ MapperIdle
    /\ DetectorIdle
    /\ ParserIdle
    /\ SecurityIdle
    /\ SessionsIdle
    /\ BuildIdle

PortalOthersUnchanged ==
    UNCHANGED <<merger_vars, mapper_vars, detector_vars, parser_vars,
                security_vars, session_vars, build_vars>>

\* The handler answers and is done with its request.
Respond(h, response) ==
    handlers' = [handlers EXCEPT ![h].stage = "done", ![h].response = response]

Serves(h, method, paths) ==
    /\ handlers[h].request.method = method
    /\ handlers[h].request.path \in paths

SetupPaths == {"/forgekeeper/setup", "/setup/submit"}
PostPaths ==
    SetupPaths \cup {"/forgekeeper/control", "/forgekeeper/runtime"}

\* The server hands a request to a thread.
Receive(h) ==
    /\ handlers[h].stage \in {"idle", "done"}
    /\ \E request \in Requests :
           handlers' = [handlers EXCEPT
                           ![h] = Handler(request, "received", 1, << >>,
                                          NoResponse)]
    /\ UNCHANGED <<setup_complete, env_file, runtime_script>>
    /\ PortalOthersUnchanged

\* do_GET: the setup gate, then the page the path names.
DoGet(h) ==
    /\ handlers[h].stage = "received"
    /\ handlers[h].request.method = "GET"
    /\ Respond(h, IF gate_redirects(handlers[h].request.path, setup_complete)
                  THEN Response(302, "/setup")
                  ELSE Response(200, ""))
    /\ UNCHANGED <<setup_complete, env_file, runtime_script>>
    /\ PortalOthersUnchanged

\* do_POST on a path it has no handler for
DoPostNotFound(h) ==
    /\ handlers[h].stage = "received"
    /\ handlers[h].request.method = "POST"
    /\ handlers[h].request.path \notin PostPaths
    /\ Respond(h, Response(404, ""))
    /\ UNCHANGED <<setup_complete, env_file, runtime_script>>
    /\ PortalOthersUnchanged

\* _handle_setup, up to the writing of ENV_FILE: payload.get fails on a body
\* that is not an object, creating or writing the file may fail.
HandleSetupWriteEnv(h) ==
    /\ handlers[h].stage = "received"
    /\ Serves(h, "POST", SetupPaths)
    /\ \E written \in BOOLEAN :
           IF is_dict(handlers[h].request.payload) /\ written
           THEN /\ env_file' = Str(env_text(handlers[h].request.payload))
                /\ handlers' = [handlers EXCEPT ![h].stage = "installs"]
           ELSE /\ Respond(h, Response(500, ""))
                /\ UNCHANGED env_file
    /\ UNCHANGED <<setup_complete, runtime_script>>
    /\ PortalOthersUnchanged

\* payload.get("languages", [])
selected_langs(payload) == data_get(payload, "languages", List(<< >>))

\* _handle_setup, one turn of the loop over the selected languages, or its
\* end; null for languages cannot be iterated.
HandleSetupInstall(h) ==
    /\ handlers[h].stage = "installs"
    /\ LET selected == selected_langs(handlers[h].request.payload)
           at == handlers[h].position
       IN  IF ~ is_list(selected)
           THEN Respond(h, Response(500, ""))
           ELSE IF at > Len(selected.list)
           THEN handlers' = [handlers EXCEPT ![h].stage = "mark"]
           ELSE IF is_unhashable(selected.list[at])
           THEN Respond(h, Response(500, ""))
           ELSE handlers' =
                    [handlers EXCEPT
                        ![h].position = at + 1,
                        ![h].started =
                            IF installs_language(selected.list[at], runtime_script)
                            THEN Append(@, <<"install", selected.list[at].str>>)
                            ELSE @]
    /\ UNCHANGED <<setup_complete, env_file, runtime_script>>
    /\ PortalOthersUnchanged

\* _handle_setup, the marker and the response; creating the marker may fail.
HandleSetupMark(h) ==
    /\ handlers[h].stage = "mark"
    /\ \E touched \in BOOLEAN :
           IF touched
           THEN /\ setup_complete' = TRUE
                /\ Respond(h, Response(200, ""))
           ELSE /\ Respond(h, Response(500, ""))
                /\ UNCHANGED setup_complete
    /\ UNCHANGED <<env_file, runtime_script>>
    /\ PortalOthersUnchanged

\* _handle_runtime; the script may exit with an error or run out of time.
HandleRuntime(h) ==
    /\ handlers[h].stage = "received"
    /\ Serves(h, "POST", {"/forgekeeper/runtime"})
    /\ LET action == data_get(handlers[h].request.payload, "action", None)
           lang == data_get(handlers[h].request.payload, "lang", Str(""))
       IN  IF ~ (is_str(action) /\ action.str \in {"install", "remove"})
           THEN Respond(h, Response(400, ""))
           ELSE IF ~ in_allowed_langs(lang)
           THEN Respond(h, Response(400, ""))
           ELSE IF ~ runtime_script
           THEN Respond(h, Response(500, ""))
           ELSE \E status \in {200, 202, 500} :
                    handlers' =
                        [handlers EXCEPT
                            ![h].stage = "done",
                            ![h].started = <<<<action.str, lang.str>>>>,
                            ![h].response = Response(status, "")]
    /\ UNCHANGED <<setup_complete, env_file, runtime_script>>
    /\ PortalOthersUnchanged

\* _handle_control; the control script may be missing or exit with an error.
HandleControl(h) ==
    /\ handlers[h].stage = "received"
    /\ Serves(h, "POST", {"/forgekeeper/control"})
    /\ LET action == data_get(handlers[h].request.payload, "action", None)
       IN  IF ~ (is_str(action) /\ action.str \in ALLOWED_ACTIONS)
           THEN /\ Respond(h, Response(400, ""))
                /\ UNCHANGED setup_complete
           ELSE \E exists \in BOOLEAN, status \in {200, 500} :
                    IF ~ exists
                    THEN /\ Respond(h, Response(500, ""))
                         /\ UNCHANGED setup_complete
                    ELSE /\ Respond(h, Response(status, ""))
                         /\ setup_complete' = control_script(setup_complete)
    /\ UNCHANGED <<env_file, runtime_script>>
    /\ PortalOthersUnchanged

NextPortal ==
    \E h \in Handlers :
        \/ Receive(h)
        \/ DoGet(h)
        \/ DoPostNotFound(h)
        \/ HandleSetupWriteEnv(h)
        \/ HandleSetupInstall(h)
        \/ HandleSetupMark(h)
        \/ HandleRuntime(h)
        \/ HandleControl(h)

SpecPortal == InitPortal /\ [][NextPortal]_vars

\* ---- Properties of the portal server ----

\* The handler serves a setup request, a runtime request.
IsSetup(h) == Serves(h, "POST", SetupPaths)
IsRuntime(h) == Serves(h, "POST", {"/forgekeeper/runtime"})

\* The commands every handler has started on the runtime script.
StartedCommands == UNION {set_of(handlers[h].started) : h \in Handlers}

\* The installs of the allowed languages among the first n entries, one per
\* occurrence, in their order.
RECURSIVE allowed_installs(_, _)
allowed_installs(entries, n) ==
    IF n = 0 THEN << >>
    ELSE allowed_installs(entries, n - 1)
         \o (IF in_allowed_langs(entries[n])
             THEN <<<<"install", entries[n].str>>>>
             ELSE << >>)

\* The runtime request asks for install or remove of an allowed language.
runtime_accepted(payload) ==
    /\ has_key(payload, "action")
    /\ item(payload, "action").str \in {"install", "remove"}
    /\ has_key(payload, "lang")
    /\ item(payload, "lang").str \in ALLOWED_LANGS

\* The setup request has gone through all of its selected languages.
LoopDone(h) ==
    /\ IsSetup(h)
    /\ is_dict(handlers[h].request.payload)
    /\ is_list(selected_langs(handlers[h].request.payload))
    /\ handlers[h].position
           > Len(selected_langs(handlers[h].request.payload).list)

\* C25 as stated: the runtime script is started for allowed languages only;
\* a setup request that has gone through its selection has started one
\* install per selected language that is allowed and none for the others; a
\* runtime request has started the script only for install or remove of an
\* allowed language.
C25_OneInstallPerAllowedLanguage ==
    /\ \A command \in StartedCommands : command[2] \in ALLOWED_LANGS
    /\ \A h \in Handlers :
           LoopDone(h) =>
               LET selected == selected_langs(handlers[h].request.payload).list
               IN  \A lang \in ALLOWED_LANGS \cup {"cobol"} :
                       Cardinality({i \in DOMAIN handlers[h].started :
                                       handlers[h].started[i] = <<"install", lang>>})
                           = IF lang \in ALLOWED_LANGS /\ Str(lang) \in set_of(selected)
                             THEN 1 ELSE 0
    /\ \A h \in Handlers :
           (IsRuntime(h) /\ handlers[h].started # << >>) =>
               runtime_accepted(handlers[h].request.payload)

\* C25, amended: the runtime script is started for allowed languages only
\* and with install or remove only.  A setup request has started, when the
\* script exists, one install per occurrence of an allowed language among
\* the selected entries it has gone through, in their order, and nothing
\* else; when the script is missing it has started nothing.  A runtime
\* request has started the script exactly when it is answered, the action
\* is install or remove, the language is allowed and the script exists.
\* Other requests start nothing.
C25_InstallsFollowAllowedSelection ==
    /\ \A command \in StartedCommands :
           /\ command[1] \in {"install", "remove"}
           /\ command[2] \in ALLOWED_LANGS
    /\ \A h \in Handlers :
           IF IsSetup(h) /\ handlers[h].position > 1
           THEN handlers[h].started =
                    IF runtime_script
                    THEN allowed_installs(
                             selected_langs(handlers[h].request.payload).list,
                             handlers[h].position - 1)
                    ELSE << >>
           ELSE IF IsRuntime(h) /\ handlers[h].stage = "done"
                   /\ runtime_accepted(handlers[h].request.payload)
                   /\ runtime_script
           THEN handlers[h].started =
                    <<<<item(handlers[h].request.payload, "action").str,
                        item(handlers[h].request.payload, "lang").str>>>>
           ELSE handlers[h].started = << >>

\* A setup request that selected python twice and a runtime request for
\* the removal of python have been answered, the script existing: two
\* installs of python were started, and one removal.
C25_Witness ==
    /\ runtime_script
    /\ handlers[1].stage = "done"
    /\ handlers[1].response.status = 200
    /\ handlers[1].request.path = "/forgekeeper/setup"
    /\ selected_langs(handlers[1].request.payload)
           = List(<<Str("python"), Str("python")>>)
    /\ handlers[1].started = <<<<"install", "python">>, <<"install", "python">>>>
    /\ handlers[2].stage = "done"
    /\ handlers[2].request.path = "/forgekeeper/runtime"
    /\ handlers[2].started = <<<<"remove", "python">>>>

\* The step answers the request for / that handler h serves.
AnswersRoot(h) ==
    /\ handlers[h].stage = "received"
    /\ Serves(h, "GET", {"/"})
    /\ handlers'[h].stage = "done"

\* The step ends the setup request of handler h with an error.
SetupFails(h) ==
    /\ IsSetup(h)
    /\ handlers[h].stage # "done"
    /\ handlers'[h].stage = "done"
    /\ handlers'[h].response.status = 500

\* Handler h is at the end of a setup request that has written the env file
\* and has gone through its selection, starting the installs.
ReadyToMark(h) ==
    /\ handlers[h].stage = "mark"
    /\ LoopDone(h)
    /\ ~ is_None(env_file)
    /\ handlers[h].started =
           IF runtime_script
           THEN allowed_installs(
                    selected_langs(handlers[h].request.payload).list,
                    Len(selected_langs(handlers[h].request.payload).list))
           ELSE << >>

GateStep ==
    /\ \A h \in Handlers :
           AnswersRoot(h) =>
               IF setup_complete
               THEN handlers'[h].response.status # 302
               ELSE handlers'[h].response = Response(302, "/setup")
    /\ (~ setup_complete /\ setup_complete') =>
           \E h \in Handlers :
               /\ ReadyToMark(h)
               /\ handlers'[h].stage = "done"
               /\ handlers'[h].response.status = 200
    /\ (\E h \in Handlers : SetupFails(h)) => setup_complete' = setup_complete
    /\ setup_complete => setup_complete'

MaxBuilds == 2
MaxLines == 1

\* A build: the statement its stream_build thread runs next, its docker
\* process ("none" until run_build has started it), the lines the process
\* has written that the thread has not read, and the lines written in all.
Build(thread, process, pipe, written) ==
    [thread |-> thread, process |-> process, pipe |-> pipe, written |-> written]

\* The object run_build returns for build b.
Popen(b) == [build |-> b]

\* process.poll() is None, is not None
poll_is_None(b) == builds[b].process = "running"
has_exited(b) == builds[b].process = "exited"

InitBuild ==
    /\ build_process = None
    /\ build_log = << >>
    /\ builds = << >>
    /\ build_response = None
    /\ MergerIdle
    /\ MapperIdle
    /\ DetectorIdle
    /\ ParserIdle
    /\ SecurityIdle
    /\ SessionsIdle
    /\ PortalIdle

BuildOthersUnchanged ==
    UNCHANGED <<merger_vars, mapper_vars, detector_vars, parser_vars,
                security_vars, session_vars, portal_vars>>

\* The condition on which POST /setup/build answers already_running.
build_is_running ==
    /\ ~ is_None(build_process)
    /\ poll_is_None(build_process.build)

\* What GET /setup/build-log answers.
build_log_answer ==
    [request |-> "build-log",
     log     |-> build_log,
     done    |-> /\ ~ is_None(build_process)
                 /\ ~ poll_is_None(build_process.build)]

\* do_POST, /setup/build: a new list for the log and a new thread, unless
\* the process build_process refers to is running.
PostBuild ==
    /\ IF build_is_running
       THEN /\ build_response' = [request |-> "build", status |-> "already_running"]
            /\ UNCHANGED <<build_log, builds>>
       ELSE /\ Len(builds) < MaxBuilds
            /\ build_log' = << >>
            /\ builds' = Append(builds, Build("run_build", "none", 0, 0))
            /\ build_response' = [request |-> "build", status |-> "started"]
    /\ UNCHANGED build_process
    /\ BuildOthersUnchanged

\* do_GET, /setup/build-log
GetBuildLog ==
    /\ build_response' = build_log_answer
    /\ UNCHANGED <<build_process, build_log, builds>>
    /\ BuildOthersUnchanged

\* do_POST, /setup/stop: the process is terminated and waited for.
PostStop ==
    /\ IF build_is_running
       THEN /\ builds' = [builds EXCEPT ![build_process.build].process = "exited"]
            /\ build_log' = Append(build_log,
                                   <<build_process.build,
                                     "[setup] Build process terminated by user.">>)
            /\ build_response' = [request |-> "stop", status |-> "stopped"]
       ELSE /\ build_response' = [request |-> "stop", status |-> "not_running"]
            /\ UNCHANGED <<build_log, builds>>
    /\ UNCHANGED build_process
    /\ BuildOthersUnchanged

\* stream_build, proc = run_build(): the process is started, or the call
\* raises and the thread ends after logging the error.
RunBuild(b) ==
    /\ b \in DOMAIN builds
    /\ builds[b].thread = "run_build"
    /\ \E raised \in BOOLEAN :
           IF raised
           THEN /\ builds' = [builds EXCEPT ![b].thread = "done"]
                /\ build_log' = Append(build_log, <<b, "[setup] Build error">>)
           ELSE /\ builds' = [builds EXCEPT ![b].thread = "assign",
                                            ![b].process = "running"]
                /\ UNCHANGED build_log
    /\ UNCHANGED <<build_process, build_response>>
    /\ BuildOthersUnchanged

\* stream_build, SetupHandler.build_process = proc
AssignBuildProcess(b) ==
    /\ b \in DOMAIN builds
    /\ builds[b].thread = "assign"
    /\ build_process' = Popen(b)
    /\ builds' = [builds EXCEPT ![b].thread = "stream"]
    /\ UNCHANGED <<build_log, build_response>>
    /\ BuildOthersUnchanged

\* The docker process writes a line of output.
ProcessWrites(b) ==
    /\ b \in DOMAIN builds
    /\ builds[b].process = "running"
    /\ builds[b].written < MaxLines
    /\ builds' = [builds EXCEPT ![b].pipe = @ + 1, ![b].written = @ + 1]
    /\ UNCHANGED <<build_process, build_log, build_response>>
    /\ BuildOthersUnchanged

\* The docker process exits.
ProcessExits(b) ==
    /\ b \in DOMAIN builds
    /\ builds[b].process = "running"
    /\ builds' = [builds EXCEPT ![b].process = "exited"]
    /\ UNCHANGED <<build_process, build_log, build_response>>
    /\ BuildOthersUnchanged

\* stream_build, one turn of the loop over proc.stdout: the line goes to
\* the list SetupHandler.build_log refers to now.
ReadLine(b) ==
    /\ b \in DOMAIN builds
    /\ builds[b].thread = "stream"
    /\ builds[b].pipe > 0
    /\ builds' = [builds EXCEPT ![b].pipe = @ - 1]
    /\ build_log' = Append(build_log, <<b, "output">>)
    /\ UNCHANGED <<build_process, build_response>>
    /\ BuildOthersUnchanged

\* stream_build, the end of the output, proc.wait() and the last line
FinishBuild(b) ==
    /\ b \in DOMAIN builds
    /\ builds[b].thread = "stream"
    /\ builds[b].pipe = 0
    /\ has_exited(b)
    /\ builds' = [builds EXCEPT ![b].thread = "done"]
    /\ build_log' = Append(build_log, <<b, "[setup] Build finished">>)
    /\ UNCHANGED <<build_process, build_response>>
    /\ BuildOthersUnchanged

NextBuild ==
    \/ PostBuild
    \/ GetBuildLog
    \/ PostStop
    \/ \E b \in 1..MaxBuilds :
           \/ RunBuild(b)
           \/ AssignBuildProcess(b)
           \/ ProcessWrites(b)
           \/ ProcessExits(b)
           \/ ReadLine(b)
           \/ FinishBuild(b)

SpecBuild == InitBuild /\ [][NextBuild]_vars

\* ---- Properties of the build ----

\* The build is over: its process has exited, or run_build raised.
IsOver(b) ==
    \/ has_exited(b)
    \/ builds[b].thread = "done" /\ builds[b].process = "none"

\* C28: at most one build process is alive, and a POST /setup/build that
\* comes while a build started before is not over starts no other build.
C28_AtMostOneBuild ==
    /\ [](Cardinality({b \in DOMAIN builds : poll_is_None(b)}) <= 1)
    /\ [][Len(builds') > Len(builds) =>
             \A b \in DOMAIN builds : IsOver(b)]_vars

\* C29: while the build started last is not over, GET /setup/build-log
\* answers done = false, and the log it answers holds lines of the build
\* started last only.
C29_LogOfLatestBuild ==
    builds # << >> =>
        /\ ~ IsOver(Len(builds)) => ~ build_log_answer.done
        /\ \A i \in DOMAIN build_log_answer.log :
               build_log_answer.log[i][1] = Len(builds)

====
